---- MODULE Spec2Model ----
(***************************************************************************)
(* Electric-meter calibration core: the DL/T645 frame codec                *)
(* (frame_builder.py, frame_parser.py), the device communicator            *)
(* (device_communicator.py), the calibration steps (calibration_step.py)   *)
(* and the calibration executor (calibration_executor.py).                 *)
(*                                                                         *)
(* Bytes are integers 0..255, byte strings are sequences of bytes, text    *)
(* strings are sequences of one-character strings.  An optional value is   *)
(* None (the empty tuple) or Some(v) (a one-element tuple).                *)
(***************************************************************************)
EXTENDS Integers, Sequences, FiniteSets, TLC

(***************************************************************************)
(* Bounds                                                                  *)
(***************************************************************************)
MaxParamLen == 2

(***************************************************************************)
(* Generic helpers                                                         *)
(***************************************************************************)
None == <<>>
Some(v) == <<v>>
IsSome(o) == Len(o) = 1
Val(o) == o[1]

RECURSIVE SumRange(_, _, _)
SumRange(s, lo, hi) ==
    IF lo > hi THEN 0
    ELSE IF lo = hi THEN s[lo]
    ELSE LET mid == (lo + hi) \div 2
         IN SumRange(s, lo, mid) + SumRange(s, mid + 1, hi)

SumSeq(s) == SumRange(s, 1, Len(s))

RECURSIVE FlatCat(_)
FlatCat(ss) == IF ss = <<>> THEN <<>> ELSE Head(ss) \o FlatCat(Tail(ss))

ReverseSeq(s) == [i \in 1..Len(s) |-> s[Len(s) + 1 - i]]

SeqsUpTo(S, n) == UNION {[1..k -> S] : k \in 0..n}

IsPrefix(p, s) == Len(p) <= Len(s) /\ SubSeq(s, 1, Len(p)) = p

(***************************************************************************)
(* Text: hexadecimal digits, Python's int(text, 16), str.split(),          *)
(* the format f"{b:02X}" and ord()                                         *)
(***************************************************************************)
HexUpper == <<"0", "1", "2", "3", "4", "5", "6", "7", "8", "9", "A", "B", "C", "D", "E", "F">>
HexLower == <<"0", "1", "2", "3", "4", "5", "6", "7", "8", "9", "a", "b", "c", "d", "e", "f">>

IsHexChar(c) == \E i \in 1..16 : HexUpper[i] = c \/ HexLower[i] = c

HexVal(c) == (CHOOSE i \in 1..16 : HexUpper[i] = c \/ HexLower[i] = c) - 1

Fmt02X(b) == <<HexUpper[(b \div 16) + 1], HexUpper[(b % 16) + 1]>>

RECURSIVE LStrip(_)
LStrip(s) == IF s # <<>> /\ Head(s) = " " THEN LStrip(Tail(s)) ELSE s

Strip(s) == ReverseSeq(LStrip(ReverseSeq(LStrip(s))))

\* digit (_? digit)* : the digit part of a Python integer literal
DigitsOk(v) ==
    /\ v # <<>>
    /\ IsHexChar(v[1])
    /\ IsHexChar(v[Len(v)])
    /\ \A i \in 1..Len(v) : IsHexChar(v[i]) \/ v[i] = "_"
    /\ \A i \in 1..(Len(v) - 1) : ~(v[i] = "_" /\ v[i + 1] = "_")

HasSign(t) == t # <<>> /\ t[1] \in {"+", "-"}
Unsigned(t) == IF HasSign(t) THEN Tail(t) ELSE t
HasPrefix0x(u) == Len(u) >= 2 /\ u[1] = "0" /\ u[2] \in {"x", "X"}
AfterPrefix(u) == IF HasPrefix0x(u)
                  THEN (IF Len(u) >= 3 /\ u[3] = "_" THEN SubSeq(u, 4, Len(u)) ELSE SubSeq(u, 3, Len(u)))
                  ELSE u

\* int(s, 16) does not raise ValueError
PyInt16Ok(s) == DigitsOk(AfterPrefix(Unsigned(Strip(s))))

RECURSIVE DigitsVal(_, _)
DigitsVal(v, acc) ==
    IF v = <<>> THEN acc
    ELSE IF Head(v) = "_" THEN DigitsVal(Tail(v), acc)
    ELSE DigitsVal(Tail(v), acc * 16 + HexVal(Head(v)))

\* int(s, 16) where it does not raise
PyInt16(s) ==
    LET t == Strip(s)
        m == DigitsVal(AfterPrefix(Unsigned(t)), 0)
    IN IF HasSign(t) /\ t[1] = "-" THEN 0 - m ELSE m

RECURSIVE SplitAcc(_, _, _)
SplitAcc(s, cur, out) ==
    IF s = <<>> THEN (IF cur = <<>> THEN out ELSE Append(out, cur))
    ELSE IF Head(s) = " "
         THEN SplitAcc(Tail(s), <<>>, IF cur = <<>> THEN out ELSE Append(out, cur))
         ELSE SplitAcc(Tail(s), Append(cur, Head(s)), out)

\* s.split(): the maximal runs of non-blank characters
Split(s) == SplitAcc(s, <<>>, <<>>)

OrdTable == [c \in {" ", "+", "-", "_", "x", "X", "G"} |->
               CASE c = " " -> 32 [] c = "+" -> 43 [] c = "-" -> 45 [] c = "_" -> 95
                 [] c = "x" -> 120 [] c = "X" -> 88 [] c = "G" -> 71]

Ord(c) == IF c \in DOMAIN OrdTable THEN OrdTable[c]
          ELSE IF \E i \in 1..10 : HexUpper[i] = c THEN 48 + HexVal(c)
          ELSE IF \E i \in 11..16 : HexUpper[i] = c THEN 55 + HexVal(c)
          ELSE 87 + HexVal(c)

(***************************************************************************)
(* ExcelEquivalentFrameBuilder                                             *)
(***************************************************************************)
FRAME_START == 104
FRAME_END == 22
DEFAULT_CONTROL == 20
DATA_OFFSET == 51
B34_EXTRA == 0
DEFAULT_ADDRESS == <<17, 17, 17, 17, 17, 17>>
PASSWORD_FIELD == <<"3", "3", "3", "3", "3", "3", "3", "3">>
OPERATOR_CODE == <<"3", "4", "3", "3", "3", "3", "3", "3">>

Ok(v) == [ok |-> TRUE, value |-> v, error |-> "none"]
Err(e) == [ok |-> FALSE, value |-> <<>>, error |-> e]

DiGroups_Order3102(di_hex) ==
    << SubSeq(di_hex, Len(di_hex) - 1, Len(di_hex)),
       SubSeq(di_hex, 3, 4),
       SubSeq(di_hex, 1, 2),
       SubSeq(di_hex, 5, 6) >>

\* the four two-character groups, in the order the code concatenates them
DiGroups(di_hex) ==
    << SubSeq(di_hex, Len(di_hex) - 1, Len(di_hex)),
       SubSeq(di_hex, 5, 6),
       SubSeq(di_hex, 3, 4),
       SubSeq(di_hex, 1, 2) >>

reverse_di_bytes(di_hex) ==
    IF Len(di_hex) # 8 THEN Err("di_length")
    ELSE IF ~PyInt16Ok(di_hex) THEN Err("di_not_hex")
    ELSE LET g == DiGroups(di_hex)
         IN Ok(g[1] \o <<" ">> \o g[2] \o <<" ">> \o g[3] \o <<" ">> \o g[4])

apply_data_offset_NoWrap(data_bytes) ==
    [i \in 1..Len(data_bytes) |-> data_bytes[i] + DATA_OFFSET]

apply_data_offset(data_bytes) ==
    [i \in 1..Len(data_bytes) |-> (data_bytes[i] + DATA_OFFSET) % 256]

\* frame_data is 1-indexed here; start_pos is the code's 0-based index
calculate_checksum(frame_data, start_pos) ==
    SumSeq(SubSeq(frame_data, start_pos + 1, Len(frame_data))) % 256

StartsWith(s, p) == IsPrefix(p, s)

HexPairs(s) == [i \in 1..(Len(s) \div 2) |-> SubSeq(s, 2 * i - 1, 2 * i)]

convert_excel_field_HexOnly(field_str) ==
    [i \in 1..(Len(field_str) \div 2) |-> PyInt16(HexPairs(field_str)[i])]

convert_excel_field_to_bytes(field_str) ==
    IF field_str = PASSWORD_FIELD THEN <<0, 0, 0, 0>>
    ELSE IF StartsWith(field_str, OPERATOR_CODE) THEN <<1, 0, 0, 0>>
    ELSE IF StartsWith(field_str, <<"3", "4", "3", "3">>) THEN <<1, 0, 0, 0>>
    ELSE IF Len(field_str) % 2 = 0 /\ \A i \in 1..(Len(field_str) \div 2) : PyInt16Ok(HexPairs(field_str)[i])
         THEN [i \in 1..(Len(field_str) \div 2) |-> PyInt16(HexPairs(field_str)[i])]
         ELSE [i \in 1..Len(field_str) |-> Ord(field_str[i])]

\* address is the byte string bytes.fromhex(address); None selects the default
AddressField(address) ==
    LET addr_bytes == IF IsSome(address) THEN Val(address) ELSE DEFAULT_ADDRESS
    IN IF Len(addr_bytes) = 6 THEN ReverseSeq(addr_bytes) ELSE <<17, 17, 17, 17, 17, 17>>

ChecksumStart_SecondMarker == 8 - 1

\* the start_pos build passes to calculate_checksum
ChecksumStart == 0

build_frame_excel_equivalent(di_code, parameter_data, address, control_code) ==
    LET ctrl == IF IsSome(control_code) THEN Val(control_code) ELSE DEFAULT_CONTROL
        header == <<FRAME_START>> \o AddressField(address) \o <<FRAME_START>> \o <<ctrl>>
        di_reversed == reverse_di_bytes(di_code)
        tokens == Split(di_reversed.value)
        di_bytes == [i \in 1..Len(tokens) |-> PyInt16(tokens[i])]
        data_field == di_bytes \o parameter_data
        password_bytes == convert_excel_field_to_bytes(PASSWORD_FIELD)
        operator_bytes == convert_excel_field_to_bytes(OPERATOR_CODE)
        complete_data_raw == data_field \o password_bytes \o operator_bytes \o <<B34_EXTRA>>
        complete_data == apply_data_offset(complete_data_raw)
        data_len == Len(complete_data)
        body == header \o <<data_len>> \o complete_data
        checksum == calculate_checksum(body, ChecksumStart)
    IN IF ctrl \notin 0..255 THEN Err("byte_range")
       ELSE IF ~di_reversed.ok THEN di_reversed
       ELSE IF \E i \in 1..Len(tokens) : ~PyInt16Ok(tokens[i]) THEN Err("di_group_not_hex")
       ELSE IF data_len > 255 THEN Err("byte_range")
       ELSE Ok(body \o <<checksum>> \o <<FRAME_END>>)

(***************************************************************************)
(* DLT645FrameParser                                                       *)
(***************************************************************************)
MIN_FRAME_LEN_OneLess == 12 - 1
MIN_FRAME_LEN == 12

\* the 0-based index of the length byte
LENGTH_INDEX == 9

EmptyParsed(frame_bytes) ==
    [ raw_frame |-> frame_bytes, parse_result |-> "success", error_message |-> "none",
      start_marker1 |-> None, address |-> None, start_marker2 |-> None,
      control_code |-> None, data_length |-> None, data_field |-> None,
      checksum |-> None, end_marker |-> None,
      di_code |-> None, di_original |-> None, parameter_data |-> None,
      password_field |-> None, operator_field |-> None,
      calculated_checksum |-> None, checksum_valid |-> FALSE ]

\* b is 1-indexed; At(b, i) is the code's b[i]
At(b, i) == b[i + 1]
\* the code's b[lo:hi]
Slice(b, lo, hi) == SubSeq(b, lo + 1, hi)

ExpectedFrameLen_NoEndMarker(dl) == 10 + dl + 1

\* expected_frame_len: header, data, checksum and end marker
ExpectedFrameLen(dl) == 10 + dl + 1 + 1

parse_frame_structure(frame_bytes, parsed) ==
    LET p1 == [parsed EXCEPT !.start_marker1 = Some(At(frame_bytes, 0))]
        p2 == [p1 EXCEPT !.address = Some(Slice(frame_bytes, 1, 7)),
                         !.start_marker2 = Some(At(frame_bytes, 7))]
        dl == At(frame_bytes, 9)
        p3 == [p2 EXCEPT !.control_code = Some(At(frame_bytes, 8)),
                         !.data_length = Some(dl)]
        expected_frame_len == ExpectedFrameLen(dl)
        p4 == [p3 EXCEPT !.data_field = IF dl > 0 THEN Some(Slice(frame_bytes, 10, 10 + dl)) ELSE None,
                         !.checksum = Some(At(frame_bytes, 10 + dl)),
                         !.end_marker = Some(At(frame_bytes, 10 + dl + 1))]
    IN IF At(frame_bytes, 0) # 104
         THEN [p1 EXCEPT !.parse_result = "invalid_format", !.error_message = "start_marker1"]
       ELSE IF At(frame_bytes, 7) # 104
         THEN [p2 EXCEPT !.parse_result = "invalid_format", !.error_message = "start_marker2"]
       ELSE IF Len(frame_bytes) # expected_frame_len
         THEN [p3 EXCEPT !.parse_result = "length_error", !.error_message = "length_mismatch"]
       ELSE IF At(frame_bytes, 10 + dl + 1) # 22
         THEN [p4 EXCEPT !.parse_result = "invalid_format", !.error_message = "end_marker"]
       ELSE p4

ParserChecksumStart_SecondMarker == 8 - 1

\* the 0-based index of the first byte the parser sums
ParserChecksumStart == 0

verify_checksum_FlagOnly(frame_bytes, parsed) ==
    IF ~IsSome(parsed.data_length) \/ ~IsSome(parsed.checksum) THEN parsed
    ELSE LET calculated == SumSeq(Slice(frame_bytes, ParserChecksumStart, Len(frame_bytes) - 2)) % 256
         IN [parsed EXCEPT !.calculated_checksum = Some(calculated),
                           !.checksum_valid = (calculated = Val(parsed.checksum))]

verify_checksum(frame_bytes, parsed) ==
    IF ~IsSome(parsed.data_length) \/ ~IsSome(parsed.checksum) THEN parsed
    ELSE LET checksum_data == Slice(frame_bytes, ParserChecksumStart, Len(frame_bytes) - 2)
             calculated == SumSeq(checksum_data) % 256
             valid == (calculated = Val(parsed.checksum))
             p1 == [parsed EXCEPT !.calculated_checksum = Some(calculated),
                                  !.checksum_valid = valid]
         IN IF ~valid
            THEN [p1 EXCEPT !.parse_result = "checksum_error", !.error_message = "checksum"]
            ELSE p1

DiRestoreOrder_Inverse3102 == <<3, 2, 4, 1>>

\* the order in which the parser reads the four identifier bytes back
DiRestoreOrder == <<4, 3, 2, 1>>

\* the parser's removal of the offset from a data field
remove_data_offset(data_field) ==
    [i \in 1..Len(data_field) |-> (data_field[i] - DATA_OFFSET) % 256]

parse_data_field(data_field, parsed) ==
    IF Len(data_field) < 4 THEN parsed
    ELSE LET deoffset_data == remove_data_offset(data_field)
             di_bytes == SubSeq(deoffset_data, 1, 4)
             di_restored == FlatCat([i \in 1..4 |-> Fmt02X(di_bytes[DiRestoreOrder[i]])])
             di_code == Fmt02X(di_bytes[1]) \o <<" ">> \o Fmt02X(di_bytes[2]) \o <<" ">>
                          \o Fmt02X(di_bytes[3]) \o <<" ">> \o Fmt02X(di_bytes[4])
             remaining_data == SubSeq(deoffset_data, 5, Len(deoffset_data))
             p1 == [parsed EXCEPT !.di_original = Some(di_restored), !.di_code = Some(di_code)]
         IN IF Len(remaining_data) >= 8
            THEN [p1 EXCEPT !.password_field = Some(SubSeq(remaining_data, 1, 4)),
                            !.operator_field = Some(SubSeq(remaining_data, 5, 8)),
                            !.parameter_data = IF Len(remaining_data) > 8
                                               THEN Some(SubSeq(remaining_data, 9, Len(remaining_data)))
                                               ELSE None]
            ELSE IF Len(remaining_data) > 0
            THEN [p1 EXCEPT !.parameter_data = Some(remaining_data)]
            ELSE p1

\* parse_frame on a bytes argument
parse_frame(frame_bytes) ==
    LET parsed == EmptyParsed(frame_bytes)
    IN IF Len(frame_bytes) < MIN_FRAME_LEN
       THEN [parsed EXCEPT !.parse_result = "length_error", !.error_message = "too_short"]
       ELSE LET s == parse_frame_structure(frame_bytes, parsed)
                c == verify_checksum(frame_bytes, s)
            IN IF IsSome(c.data_field) /\ Val(c.data_field) # <<>>
               THEN parse_data_field(Val(c.data_field), c)
               ELSE c

(***************************************************************************)
(* Calibration steps (calibration_step.py)                                 *)
(*                                                                         *)
(* A physical quantity is an integer number of thousandths of its unit     *)
(* (220.0 V is 220000); int(x * k) is the exact product truncated toward   *)
(* zero.  A correction value is the fraction num/den the code computes.    *)
(***************************************************************************)
STEP_IDS == <<"step1", "step2", "step3", "step4", "step5">>

KnownStep(id) == \E i \in 1..Len(STEP_IDS) : STEP_IDS[i] = id

\* create_all_calibration_steps: the ids in the order the executor's dict holds them
create_all_calibration_steps == STEP_IDS

DefaultParameters ==
    [ standard_voltage |-> 220000, standard_current |-> 1000, frequency |-> 50000,
      power_factor |-> 1000, phase_angle |-> 0,
      no_load_threshold |-> 1, small_current_threshold |-> 50 ]

get_di_code(id) ==
    CASE id = "step1" -> <<"0", "0", "F", "8", "1", "5", "0", "0">>
      [] id = "step2" -> <<"0", "0", "F", "8", "1", "6", "0", "0">>
      [] id = "step3" -> <<"0", "0", "F", "8", "1", "7", "0", "0">>
      [] id = "step4" -> <<"0", "0", "F", "8", "1", "8", "0", "0">>
      [] id = "step5" -> <<"0", "0", "F", "8", "1", "9", "0", "0">>

TruncDiv(a, b) == IF a >= 0 THEN a \div b ELSE 0 - ((0 - a) \div b)

RECURSIVE Pow256(_)
Pow256(k) == IF k = 0 THEN 1 ELSE 256 * Pow256(k - 1)

\* n.to_bytes(w, byteorder='little', signed=sgn); OverflowError when n does not fit
to_bytes(n, w, sgn) ==
    LET top == Pow256(w - 1)
        fits == IF sgn THEN n >= 0 - 128 * top /\ n < 128 * top
                ELSE n >= 0 /\ n \div top <= 255
        u == IF n < 0 THEN n + 256 * top ELSE n
    IN IF ~fits THEN Err("overflow")
       ELSE Ok([i \in 1..w |-> (u \div Pow256(i - 1)) % 256])

\* int.from_bytes(b, byteorder='little', signed=sgn)
from_bytes(b, sgn) ==
    LET u == SumSeq([i \in 1..Len(b) |-> b[i] * Pow256(i - 1)])
    IN IF sgn /\ Len(b) > 0 /\ u >= Pow256(Len(b)) \div 2 THEN u - Pow256(Len(b)) ELSE u

Cat2(a, b) == IF ~a.ok THEN a ELSE IF ~b.ok THEN b ELSE Ok(a.value \o b.value)

prepare_parameters(id, p) ==
    CASE id = "step1" -> Ok(<<0>>)
      [] id = "step2" ->
           Cat2(to_bytes(TruncDiv(p.standard_voltage * 100, 1000), 2, FALSE),
                to_bytes(TruncDiv(p.standard_current * 1000, 1000), 2, FALSE))
      [] id = "step3" ->
           \* int(U * I * pf * 100) in thousandths, scaled down after each product
           to_bytes(TruncDiv(TruncDiv(TruncDiv(p.standard_voltage * p.standard_current, 1000)
                                        * p.power_factor, 1000) * 100, 1000), 4, FALSE)
      [] id = "step4" -> to_bytes(TruncDiv(p.phase_angle * 100, 1000), 2, TRUE)
      [] id = "step5" -> to_bytes(TruncDiv(p.small_current_threshold * 10000, 1000), 4, FALSE)

Frac(n, d) == [num |-> n, den |-> d]

\* the response's data field as process_response slices it, or None when the
\* length guards of process_response fail
ResponseDataField(response_frame, min_len) ==
    IF Len(response_frame) >= 12
         /\ Len(response_frame) >= 10 + At(response_frame, 9)
         /\ At(response_frame, 9) >= min_len
    THEN Some(Slice(response_frame, 10, 10 + At(response_frame, 9)))
    ELSE None

process_response(id, response_frame) ==
    CASE id = "step1" ->
           LET d == ResponseDataField(response_frame, 0)
           IN IF IsSome(d) /\ Val(d) # <<>> THEN Frac(SumSeq(Val(d)), Len(Val(d))) ELSE Frac(0, 1)
      [] id = "step2" ->
           LET d == ResponseDataField(response_frame, 4)
           IN IF IsSome(d) THEN Frac(from_bytes(SubSeq(Val(d), 1, 4), FALSE), 10000) ELSE Frac(1, 1)
      [] id = "step3" ->
           LET d == ResponseDataField(response_frame, 4)
           IN IF IsSome(d) THEN Frac(from_bytes(SubSeq(Val(d), 1, 4), FALSE), 10000) ELSE Frac(1, 1)
      [] id = "step4" ->
           LET d == ResponseDataField(response_frame, 2)
           IN IF IsSome(d) THEN Frac(from_bytes(SubSeq(Val(d), 1, 2), TRUE), 100) ELSE Frac(0, 1)
      [] id = "step5" ->
           LET d == ResponseDataField(response_frame, 4)
           IN IF IsSome(d) THEN Frac(from_bytes(SubSeq(Val(d), 1, 4), FALSE), 10000) ELSE Frac(0, 1)

StepResult(status, correction, raw, err) ==
    [status |-> status, correction_value |-> correction, raw_response |-> raw, error_message |-> err]

(***************************************************************************)
(* DeviceCommunicator: pure parts                                          *)
(***************************************************************************)
is_complete_frame(data) ==
    IF Len(data) < 12 THEN FALSE
    ELSE IF At(data, 0) # 104 \/ At(data, 7) # 104 THEN FALSE
    ELSE Len(data) >= 10 + At(data, 9) + 1 + 1 /\ At(data, Len(data) - 1) = 22

BitOr80(c) == IF (c \div 128) % 2 = 1 THEN c ELSE c + 128

\* the truth value Python gives an optional integer
Truthy(o) == IsSome(o) /\ Val(o) # 0

\* "ok", or the check of _validate_response that raises ResponseValidationError
validate_response(request_frame, response_frame) ==
    LET parsed_request == parse_frame(request_frame)
        parsed_response == parse_frame(response_frame)
    IN IF parsed_response.parse_result # "success" THEN "validation_parse"
       ELSE IF parsed_request.address # parsed_response.address THEN "validation_address"
       ELSE IF Truthy(parsed_request.control_code) /\ Truthy(parsed_response.control_code)
                 /\ Val(parsed_response.control_code)
                      # BitOr80(Val(parsed_request.control_code)) % 256
            THEN "validation_control"
       ELSE IF ~parsed_response.checksum_valid THEN "validation_checksum"
       ELSE "ok"

\* the exception class _wait_for_response / _validate_response / send_frame raise
ErrorClass(kind) ==
    CASE kind = "timeout" -> "TimeoutError"
      [] kind \in {"incomplete", "validation_parse", "validation_address",
                   "validation_control", "validation_checksum"} -> "ResponseValidationError"
      [] OTHER -> "CommunicationError"

CommunicationResult(success, response, err, retry_count) ==
    [ success |-> success, response_frame |-> response, error_message |-> err,
      error_class |-> IF success THEN "none" ELSE ErrorClass(err), retry_count |-> retry_count ]

(***************************************************************************)
(* The device on the other end of the serial line: what an attempt's read  *)
(* loop has accumulated when it returns or its deadline passes.            *)
(***************************************************************************)
MkFrame(addr, ctrl, data, cs_delta) ==
    LET body == <<104>> \o addr \o <<104, ctrl, Len(data)>> \o data
    IN body \o <<(SumSeq(body) + cs_delta) % 256, 22>>

WireAddress == <<17, 17, 17, 17, 17, 17>>
ResponseData == <<16, 39, 0, 0>>

GoodResponse == MkFrame(WireAddress, 148, ResponseData, 0)
NoDataResponse == MkFrame(WireAddress, 148, <<>>, 0)
WrongAddressResponse == MkFrame(<<34, 17, 17, 17, 17, 17>>, 148, ResponseData, 0)
WrongControlResponse == MkFrame(WireAddress, 20, ResponseData, 0)
ErrorControlResponse == MkFrame(WireAddress, 212, <<1>>, 0)
ZeroControlResponse == MkFrame(WireAddress, 0, ResponseData, 0)
BadChecksumResponse == MkFrame(WireAddress, 148, ResponseData, 1)
TrailingByteResponse == GoodResponse \o <<22>>
PartialResponse == <<104, 17, 17>>

\* the line at its two ordinary behaviours: silence, and the positive answer
PlainRx == { <<>>, GoodResponse }

\* the line misbehaving
FaultRx ==
    { PartialResponse, NoDataResponse, WrongAddressResponse, WrongControlResponse,
      ErrorControlResponse, ZeroControlResponse, BadChecksumResponse, TrailingByteResponse }

RxInputs == PlainRx \cup FaultRx

(***************************************************************************)
(* The codec as a state machine: an input is drawn, build is applied to    *)
(* it, and parse is applied to the frame build returned.                   *)
(***************************************************************************)
VARIABLES c_pc, c_di, c_params, c_address, c_control, c_built, c_parsed

codecVars == <<c_pc, c_di, c_params, c_address, c_control, c_built, c_parsed>>

ByteSample == {0, 21, 248}
ParamByteSample == {0, 205}

UpperId(bs) == FlatCat([i \in 1..Len(bs) |-> Fmt02X(bs[i])])
FmtLower(b) == <<HexLower[(b \div 16) + 1], HexLower[(b % 16) + 1]>>
LowerId(bs) == FlatCat([i \in 1..Len(bs) |-> FmtLower(bs[i])])

DI_00F81500 == <<"0", "0", "F", "8", "1", "5", "0", "0">>

WellFormedIds ==
    {UpperId(bs) : bs \in [1..4 -> ByteSample]} \cup {LowerId(bs) : bs \in [1..4 -> ByteSample]}
      \cup {<<"1", "2", "3", "4", "5", "6", "7", "8">>,
           <<"A", "B", "C", "D", "E", "F", "0", "1">>,
           <<"a", "b", "c", "d", "e", "f", "0", "1">>}

OddIds ==
    { <<"+", "1", "2", "3", "4", "5", "6", "7">>,
      <<"-", "1", "2", "3", "4", "5", "6", "7">>,
      <<" ", "1", "2", "3", "4", "5", "6", "7">>,
      <<"1", "2", "3", "4", "5", "6", "7", " ">>,
      <<" ", " ", "1", "2", "3", "4", "5", "6">>,
      <<"1", "_", "2", "3", "4", "5", "6", "7">>,
      <<"0", "x", "1", "2", "3", "4", "5", "6">>,
      <<"1", "2", " ", "3", "4", "5", "6", "7">>,
      <<"0", "X", "_", "1", "2", "3", "4", "5">>,
      <<"1", "2", "3", "4", "5", "6", "7">>,
      <<"G", "G", "G", "G", "G", "G", "G", "G">>,
      <<"1", "2", "3", "4", "5", "6", "7", "8", "9">>,
      <<>> }

DiInputs == WellFormedIds \cup OddIds

ParamInputs == SeqsUpTo(ParamByteSample, MaxParamLen)

AddressInputs == {None, Some(<<1, 2, 3, 4, 5, 6>>), Some(<<1, 2>>)}

ControlInputs == {None, Some(17), Some(0)}

CodecIdle ==
    /\ c_pc = "off"
    /\ c_di = <<>>
    /\ c_params = <<>>
    /\ c_address = None
    /\ c_control = None
    /\ c_built = Err("none")
    /\ c_parsed = None

\* parameter data that makes the payload exactly 255 bytes long, and one byte more
LargeParamInputs == {[i \in 1..n |-> 0] : n \in {242, 243}}

CodecInit ==
    /\ c_pc = "input"
    /\ \/ /\ c_di \in DiInputs
          /\ c_params \in ParamInputs
          /\ c_address \in AddressInputs
          /\ c_control \in ControlInputs
       \/ /\ c_di = DI_00F81500
          /\ c_params \in LargeParamInputs
          /\ c_address = None
          /\ c_control = None
    /\ c_built = Err("none")
    /\ c_parsed = None

Build ==
    /\ c_pc = "input"
    /\ c_built' = build_frame_excel_equivalent(c_di, c_params, c_address, c_control)
    /\ c_pc' = "built"
    /\ UNCHANGED <<c_di, c_params, c_address, c_control, c_parsed>>

Parse ==
    /\ c_pc = "built"
    /\ c_built.ok
    /\ c_parsed' = Some(parse_frame(c_built.value))
    /\ c_pc' = "parsed"
    /\ UNCHANGED <<c_di, c_params, c_address, c_control, c_built>>

(***************************************************************************)
(* ParameterCalculator (parameter_calculator.py)                           *)
(*                                                                         *)
(* The integers of a 4-byte field exceed the checker's own, so an integer  *)
(* is written sign and magnitude, the magnitude as hi * 65536 + lo with lo *)
(* in 0..65535.  A physical value is given by its exact product with the   *)
(* kind's scale: a sign, the whole part as such a magnitude, and the first *)
(* decimal of the remainder (tenth).                                       *)
(***************************************************************************)
ParameterTypes == {"voltage", "current", "power", "frequency", "phase", "energy"}

encoding_configs ==
    [ voltage   |-> [scale |-> 100,  bytes |-> 2, signed |-> FALSE],
      current   |-> [scale |-> 1000, bytes |-> 4, signed |-> FALSE],
      power     |-> [scale |-> 100,  bytes |-> 4, signed |-> FALSE],
      frequency |-> [scale |-> 100,  bytes |-> 2, signed |-> FALSE],
      phase     |-> [scale |-> 100,  bytes |-> 2, signed |-> TRUE],
      energy    |-> [scale |-> 1000, bytes |-> 4, signed |-> FALSE] ]

WORD == 2 ^ 16

\* the integer sign * (hi * 65536 + lo); zero has no sign
Big(neg, hi, lo) == [neg |-> neg /\ (hi # 0 \/ lo # 0), hi |-> hi, lo |-> lo]

MagLeq(a, b) == a.hi < b.hi \/ (a.hi = b.hi /\ a.lo <= b.lo)

BigLeq(a, b) ==
    IF a.neg # b.neg THEN a.neg
    ELSE IF a.neg THEN MagLeq(b, a)
    ELSE MagLeq(a, b)

\* magnitude + 1 and magnitude - 1, the sign kept
MagSucc(a) == IF a.lo = WORD - 1 THEN Big(a.neg, a.hi + 1, 0) ELSE Big(a.neg, a.hi, a.lo + 1)
MagPred(a) == IF a.lo = 0 THEN Big(a.neg, a.hi - 1, WORD - 1) ELSE Big(a.neg, a.hi, a.lo - 1)

\* 2 ** bits
BigPow2(bits) == IF bits < 16 THEN Big(FALSE, 0, 2 ^ bits) ELSE Big(FALSE, 2 ^ (bits - 16), 0)
BigNeg(a) == Big(~a.neg, a.hi, a.lo)

\* 2 ** bits - m for a magnitude m in 1 .. 2 ** bits, bits >= 16
Pow2Minus(bits, m) ==
    IF m.lo = 0 THEN Big(FALSE, 2 ^ (bits - 16) - m.hi, 0)
    ELSE Big(FALSE, 2 ^ (bits - 16) - 1 - m.hi, WORD - m.lo)

\* int(round(physical_value * scale)): the nearest integer; when the product
\* lies halfway between two integers the float product may be either side of
\* the half or the half itself, and the result is one of the two neighbours
ScaledValues(x) ==
    LET down == Big(x.neg, x.hi, x.lo)
        up == MagSucc(Big(x.neg, x.hi, x.lo))
    IN IF x.tenth < 5 THEN {down}
       ELSE IF x.tenth > 5 THEN {up}
       ELSE {down, up}

max_value(config) ==
    IF config.signed THEN MagPred(BigPow2(config.bytes * 8 - 1))
    ELSE MagPred(BigPow2(config.bytes * 8))

min_value(config) ==
    IF config.signed THEN BigNeg(BigPow2(config.bytes * 8 - 1))
    ELSE Big(FALSE, 0, 0)

\* the four low bytes of a magnitude, least significant first
LittleEndian(n) == <<n.lo % 256, n.lo \div 256, n.hi % 256, n.hi \div 256>>

\* whether length bytes hold the integer n
Fits(n, length, signed) ==
    IF signed
    THEN BigLeq(BigNeg(BigPow2(length * 8 - 1)), n) /\ BigLeq(n, MagPred(BigPow2(length * 8 - 1)))
    ELSE ~n.neg /\ BigLeq(n, MagPred(BigPow2(length * 8)))

wide_to_bytes_BigEndian(n, length, signed) ==
    LET u == IF n.neg THEN Pow2Minus(length * 8, n) ELSE n
        le == SubSeq(LittleEndian(u), 1, length)
    IN IF ~Fits(n, length, signed) THEN Err("overflow")
       ELSE Ok([i \in 1..length |-> le[length + 1 - i]])

\* int.to_bytes(length, byteorder='little', signed=signed) of such an
\* integer; OverflowError when it does not fit
wide_to_bytes(n, length, signed) ==
    LET u == IF n.neg THEN Pow2Minus(length * 8, n) ELSE n
    IN IF ~Fits(n, length, signed) THEN Err("overflow")
       ELSE Ok(SubSeq(LittleEndian(u), 1, length))

wide_from_bytes_Unsigned(data, signed) ==
    LET b == data \o <<0, 0, 0, 0>>
    IN Big(FALSE, b[3] + 256 * b[4], b[1] + 256 * b[2])

\* int.from_bytes(data, byteorder='little', signed=signed) of 1..4 bytes
wide_from_bytes(data, signed) ==
    LET b == data \o <<0, 0, 0, 0>>
        u == Big(FALSE, b[3] + 256 * b[4], b[1] + 256 * b[2])
    IN IF signed /\ data # <<>> /\ data[Len(data)] >= 128
       THEN BigNeg(Pow2Minus(Len(data) * 8, u))
       ELSE u

encode_scaled_Truncating(scaled_value, param_type) ==
    LET config == encoding_configs[param_type]
        low == <<scaled_value.lo % 256, scaled_value.lo \div 256,
                 scaled_value.hi % 256, (scaled_value.hi \div 256) % 256>>
    IN Ok(SubSeq(low, 1, config.bytes))

\* the body of encode_to_dl645_format once scaled_value is computed
encode_scaled(scaled_value, param_type) ==
    IF param_type \notin ParameterTypes THEN Err("unsupported_type")
    ELSE LET config == encoding_configs[param_type]
         IN IF ~(BigLeq(min_value(config), scaled_value) /\ BigLeq(scaled_value, max_value(config)))
            THEN Err("encode_out_of_range")
            ELSE wide_to_bytes(scaled_value, config.bytes, config.signed)

\* the value scaled_value / scale, as the fraction it is
decode_from_dl645_format(dl645_data, param_type) ==
    IF param_type \notin ParameterTypes THEN Err("unsupported_type")
    ELSE LET config == encoding_configs[param_type]
         IN IF Len(dl645_data) # config.bytes THEN Err("length_mismatch")
            ELSE Ok([num |-> wide_from_bytes(dl645_data, config.signed), den |-> config.scale])

(***************************************************************************)
(* Single calls of the codec's functions on given arguments: f_in is the   *)
(* argument of the call, f_out its result.                                 *)
(***************************************************************************)
VARIABLES f_pc, f_in, f_out

fnVars == <<f_pc, f_in, f_out>>

FnIdle ==
    /\ f_pc = "off"
    /\ f_in = <<>>
    /\ f_out = <<>>

\* the argument of one call: which function, and its byte string, position,
\* byte value, parameter kind and physical value as the function needs them
FnInput(fn, bytes, pos, val, kind, x) ==
    [fn |-> fn, bytes |-> bytes, pos |-> pos, val |-> val, kind |-> kind, x |-> x]

\* frames returned by build, to be corrupted
CorruptDiInputs == {DI_00F81500, <<"1", "2", "3", "4", "5", "6", "7", "8">>}
BuiltFrames ==
    {build_frame_excel_equivalent(d, ps, None, None).value : d \in CorruptDiInputs, ps \in ParamInputs}

\* frame with the byte at the 0-based index pos replaced by val
ReplaceByte(frame, pos, val) == [frame EXCEPT ![pos + 1] = val]

\* every position of every such frame, every other byte value
CorruptInputs ==
    \E fr \in BuiltFrames : \E pos \in 0..(Len(fr) - 1) : \E v \in (0..255) \ {fr[pos + 1]} :
        f_in = FnInput("parse_corrupted", fr, pos, v, "none", <<>>)

\* parse_frame applied to a built frame with one byte replaced
ParseCorrupted ==
    /\ f_pc = "input"
    /\ f_in.fn = "parse_corrupted"
    /\ f_out' = parse_frame(ReplaceByte(f_in.bytes, f_in.pos, f_in.val))
    /\ f_pc' = "done"
    /\ UNCHANGED f_in

\* byte strings of any length: every prefix of a built frame (the empty one
\* and the whole frame included), a built frame with a byte appended, runs of
\* one byte, and frames of a device with short data fields, a wrong checksum
\* or a wrong end marker
RunBytes == {0, 22, 104, 255}
MaxRunLen == 14
DeviceFrames ==
    {MkFrame(WireAddress, 148, SubSeq(ResponseData \o <<51, 51>>, 1, n), d) : n \in 0..6, d \in {0, 1}}
ByteStrings ==
    UNION { {SubSeq(fr, 1, n) : n \in 0..Len(fr)} : fr \in BuiltFrames }
      \cup {fr \o <<b>> : fr \in BuiltFrames, b \in RunBytes}
      \cup {[i \in 1..n |-> b] : n \in 0..MaxRunLen, b \in RunBytes}
      \cup DeviceFrames
      \cup {ReplaceByte(fr, Len(fr) - 1, 0) : fr \in DeviceFrames}
ParseInputs == \E bs \in ByteStrings : f_in = FnInput("parse", bs, 0, 0, "none", <<>>)

\* parse_frame applied to a byte string
ParseBytes ==
    /\ f_pc = "input"
    /\ f_in.fn = "parse"
    /\ f_out' = parse_frame(f_in.bytes)
    /\ f_pc' = "done"
    /\ UNCHANGED f_in

\* byte lists to be offset: the empty one, every single byte, the lists of
\* the builder's test, and every pair and triple of bytes around the wrap
OffsetBytes == {0, 50, 51, 204, 205, 255}
OffsetLists ==
    {<<>>, <<0, 21, 248, 0>>, <<0, 0, 0, 0>>, <<1, 0, 0, 0>>}
      \cup {<<b>> : b \in 0..255}
      \cup {<<a, b>> : a, b \in OffsetBytes}
      \cup {<<a, b, c>> : a, b, c \in OffsetBytes}
OffsetInputs == \E bs \in OffsetLists : f_in = FnInput("offset", bs, 0, 0, "none", <<>>)

\* apply_data_offset applied to a byte list
ApplyOffset ==
    /\ f_pc = "input"
    /\ f_in.fn = "offset"
    /\ f_out' = apply_data_offset(f_in.bytes)
    /\ f_pc' = "done"
    /\ UNCHANGED f_in

\* physical values to be encoded, given by their product with the scale: the
\* whole part around the limits of one, two and four bytes, the remainder
\* below, at and above the half, both signs
EncodeLo == {0, 1, 255, 256, 22000, 32767, 32768, 32769, 65535}
EncodeHi == {0, 1, 255, 65535, 65536}
EncodeTenths == {0, 4, 5, 6}
PhysicalValue(neg, hi, lo, tenth) == [neg |-> neg, hi |-> hi, lo |-> lo, tenth |-> tenth]
EncodeInputs ==
    \E kind \in ParameterTypes : \E neg \in BOOLEAN : \E hi \in EncodeHi :
        \E lo \in EncodeLo : \E tenth \in EncodeTenths :
            f_in = FnInput("encode", <<>>, 0, 0, kind, PhysicalValue(neg, hi, lo, tenth))

\* encode_to_dl645_format applied to a physical value and a kind
Encode ==
    /\ f_pc = "input"
    /\ f_in.fn = "encode"
    /\ \E scaled_value \in ScaledValues(f_in.x) :
          f_out' = [ scaled_value |-> scaled_value,
                     encoded |-> encode_scaled(scaled_value, f_in.kind),
                     decoded |-> None ]
    /\ f_pc' = "encoded"
    /\ UNCHANGED f_in

\* decode_from_dl645_format applied to the bytes encode returned
Decode ==
    /\ f_pc = "encoded"
    /\ f_out.encoded.ok
    /\ f_out' = [f_out EXCEPT !.decoded =
                    Some(decode_from_dl645_format(f_out.encoded.value, f_in.kind))]
    /\ f_pc' = "done"
    /\ UNCHANGED f_in

\* ParameterCalculator.parameter_ranges of the two quantities of step2, in
\* thousandths of the unit
parameter_ranges ==
    [ voltage |-> [min_value |-> 50000, max_value |-> 500000],
      current |-> [min_value |-> 1, max_value |-> 200000] ]

\* the product of a quantity given in thousandths with a scale, as the codec
\* takes it
ScaledProduct(thousandths, scale) ==
    LET n == thousandths * scale
        m == IF n < 0 THEN 0 - n ELSE n
    IN [neg |-> n < 0, hi |-> (m \div 1000) \div WORD, lo |-> (m \div 1000) % WORD,
        tenth |-> (m % 1000) \div 100]

\* what encode_to_dl645_format may return for a quantity and a kind
encode_to_dl645_format(thousandths, param_type) ==
    {encode_scaled(sv, param_type) :
        sv \in ScaledValues(ScaledProduct(thousandths, encoding_configs[param_type].scale))}

\* standard voltages and currents inside the codec's ranges, at its precision
PrepareVoltages == {50000, 220000, 220150, 500000}
PrepareCurrents == {1, 1000, 65535, 65536, 200000}
PrepareInputs ==
    \E v \in PrepareVoltages : \E c \in PrepareCurrents :
        f_in = FnInput("prepare", <<>>, 0, 0, "none",
                       [DefaultParameters EXCEPT !.standard_voltage = v, !.standard_current = c])

\* step2's prepare_parameters applied to the parameters, and the codec's
\* encodings of the same two quantities
PrepareStep2 ==
    /\ f_pc = "input"
    /\ f_in.fn = "prepare"
    /\ \E ve \in encode_to_dl645_format(f_in.x.standard_voltage, "voltage") :
       \E ce \in encode_to_dl645_format(f_in.x.standard_current, "current") :
          f_out' = [prepared |-> prepare_parameters("step2", f_in.x), codec |-> Cat2(ve, ce)]
    /\ f_pc' = "done"
    /\ UNCHANGED f_in

(***************************************************************************)
(* Communicator, steps and executor as a state machine.                    *)
(*                                                                         *)
(* One thread runs the executor's batch (its position is epc); the         *)
(* operator's thread may call cancel_execution, pause_execution,           *)
(* resume_execution and reset_all_steps between any two of its steps.      *)
(***************************************************************************)
VARIABLES
    port_open,          \* SerialPort.is_open()
    cal_params,         \* the CalibrationParameters of the runs
    comm_config,        \* DeviceCommunicator.config
    comm_status,        \* DeviceCommunicator.status
    counters,           \* total_commands_sent, successful_commands, failed_commands, total_retry_count
    attempt,            \* _send_with_retry: the loop variable
    last_error,         \* _send_with_retry: last_error (None or Some(kind))
    request_frame,      \* the frame of the command in flight
    comm_result,        \* the CommunicationResult of the last finished command, and how the call ended
    step_status,        \* CalibrationStep.status, per step id
    step_result,        \* CalibrationStep.result, per step id
    e_config,           \* CalibrationExecutor.config
    original_config,    \* execute_one_click_calibration: original_config
    current_status,     \* CalibrationExecutor.current_status
    stop_requested,     \* CalibrationExecutor.stop_requested
    execution_counter,  \* CalibrationExecutor.execution_counter
    execution_history,  \* CalibrationExecutor.execution_history (the statuses of its results)
    exec_result,        \* the ExecutionResult of the current or last batch
    epc,                \* where the batch thread is
    run_kind,           \* "selected" or "one_click"
    run_ids,            \* step_ids of the batch
    idx,                \* index of the for loop over step_ids (1-based)
    s_try,              \* 0: first execute of execute_single_step; k >= 1: k-th pass of _retry_step
    att_result,         \* the StepResult the last step.execute returned
    returned,           \* the ExecutionResult the last batch call returned
    h_writes,           \* frames written to the port by the command in flight / last finished
    h_silent,           \* every attempt of that command: write accepted, no byte received
    h_started,          \* ids of the steps started in the current or last batch, in order
    h_cancelled,        \* cancel_execution was called while the current or last batch was running
    h_late_start,       \* a step was started after such a call
    silences_left,      \* how many more attempts the device may leave unanswered
    faults_left,        \* how many more times the line may misbehave
    calls_left,         \* how many more calls the operator's thread may make
    runs_left,          \* how many more execute_* calls the client may make
    h_outcomes,         \* the results of the step.execute calls of the execute_single_step in progress
    h_reset_in_step,    \* reset_all_steps was called during the execute_single_step in progress
    h_callbacks,        \* the progress callback's invocations in the current call, as <<step id, status>>
    h_cb_raised,        \* the progress callback raised in the current call
    second_returned,    \* what a second execute_selected_steps call, made during a run, returned
    c2_pc,              \* a second client of the communicator: "off", "sent", "returned", "raised"
    single_returned,    \* how the last direct execute_single_step call ended, or None
    h_run_writes        \* frames written to the port since the current or last execute_* call began

commVars == <<port_open, cal_params, comm_config, comm_status, counters, attempt, last_error,
              request_frame, comm_result, h_writes, h_silent>>
stepVars == <<step_status, step_result, h_outcomes>>
execVars == <<e_config, original_config, current_status, stop_requested, execution_counter,
              execution_history, exec_result, epc, run_kind, run_ids, idx, s_try, att_result,
              returned, h_started, h_cancelled, h_late_start>>
envVars == <<silences_left, faults_left, calls_left, runs_left>>
obsVars == <<h_reset_in_step, h_callbacks, h_cb_raised, second_returned, c2_pc, single_returned,
             h_run_writes>>
sysVars == <<commVars, stepVars, execVars, envVars, obsVars>>

MaxRuns == 1
MaxCommands == 2
MaxCommRetries == 1
MaxStepRetries == 1
MaxSilences == 2
MaxFaults == 1
MaxCalls == 2

StepIdSet == {STEP_IDS[i] : i \in 1..Len(STEP_IDS)}

OverflowParameters == [DefaultParameters EXCEPT !.standard_voltage = 700000]

ParameterInputs == {DefaultParameters, OverflowParameters}

RequestInputs ==
    { <<"step1">>,
      <<"step2", "step1", "step3">>,
      <<"step3", "step3">>,
      <<"step1", "stepX", "step2">> }

ExecutionConfig(mode, soe, retry, max_retries, delay, cb) ==
    [ mode |-> mode, stop_on_error |-> soe, auto_retry_failed |-> retry,
      max_step_retries |-> max_retries, step_delay_ms |-> delay, progress_callback |-> cb ]

\* progress_callback: "none" (no callback configured), "raises" (a callback is
\* configured; each invocation returns or raises)
ConfigInputs ==
    { ExecutionConfig("single_step", soe, retry, IF retry THEN MaxStepRetries ELSE 0, 500, cb) :
        soe \in BOOLEAN, retry \in BOOLEAN, cb \in {"none", "raises"} }

CommConfigInputs ==
    { [max_retries |-> n, validate_response |-> v] : n \in 0..MaxCommRetries, v \in BOOLEAN }

\* ExecutionConfig(): the defaults of the dataclass
DefaultExecutionConfig == ExecutionConfig("single_step", FALSE, TRUE, 2, 500, "none")

BaseCommConfig == [max_retries |-> 0, validate_response |-> TRUE]

ZeroCounters ==
    [ total_commands_sent |-> 0, successful_commands |-> 0, failed_commands |-> 0,
      total_retry_count |-> 0 ]

NoResult == [ended |-> "none", result |-> CommunicationResult(FALSE, None, "none", 0)]

ExecutionResult(id, status) ==
    [ execution_id |-> id, status |-> status, executed_steps |-> <<>>, successful_steps |-> <<>>,
      failed_steps |-> <<>>, skipped_steps |-> <<>>,
      step_results |-> [i \in StepIdSet |-> None], error_message |-> "none" ]

NoExecution == ExecutionResult(<<"none", 0>>, "none")

SysInitWith(pcfg, ccfg, ecfg, popen, env) ==
    /\ port_open = popen
    /\ cal_params = pcfg
    /\ comm_config = ccfg
    /\ comm_status = "idle"
    /\ counters = ZeroCounters
    /\ attempt = 0
    /\ last_error = None
    /\ request_frame = <<>>
    /\ comm_result = NoResult
    /\ step_status = [i \in StepIdSet |-> "pending"]
    /\ step_result = [i \in StepIdSet |-> None]
    /\ e_config = ecfg
    /\ original_config = None
    /\ current_status = "idle"
    /\ stop_requested = FALSE
    /\ execution_counter = 0
    /\ execution_history = <<>>
    /\ exec_result = NoExecution
    /\ epc = "idle"
    /\ run_kind = "none"
    /\ run_ids = <<>>
    /\ idx = 0
    /\ s_try = 0
    /\ att_result = None
    /\ returned = None
    /\ h_writes = 0
    /\ h_silent = TRUE
    /\ h_started = <<>>
    /\ h_cancelled = FALSE
    /\ h_late_start = FALSE
    /\ silences_left = env[1]
    /\ faults_left = env[2]
    /\ calls_left = env[3]
    /\ runs_left = env[4]
    /\ h_outcomes = <<>>
    /\ h_reset_in_step = FALSE
    /\ h_callbacks = <<>>
    /\ h_cb_raised = FALSE
    /\ second_returned = None
    /\ c2_pc = "off"
    /\ single_returned = None
    /\ h_run_writes = 0

\* DeviceCommunicator.__init__, CalibrationStep.__init__, CalibrationExecutor.__init__
SysInit ==
    \E pcfg \in ParameterInputs, ccfg \in CommConfigInputs, ecfg \in ConfigInputs, popen \in BOOLEAN :
        \* the device answers well or not at all: validation has nothing to reject
        /\ ccfg.validate_response
        \* a closed port or an overflowing parameter is looked at under one communicator setup
        /\ (~popen \/ pcfg # DefaultParameters) => ccfg = BaseCommConfig
        /\ ~popen => pcfg = DefaultParameters
        /\ SysInitWith(pcfg, ccfg, ecfg, popen, <<MaxSilences, 0, MaxCalls, MaxRuns>>)

\* the state of the system while only the codec is exercised
SysIdle ==
    SysInitWith(DefaultParameters, BaseCommConfig, DefaultExecutionConfig, TRUE, <<0, 0, 0, 0>>)

staticVars == <<port_open, cal_params, comm_config>>
codecQuiet == UNCHANGED <<codecVars, fnVars>>

CurrentStep == run_ids[idx]

\* the one-click policy of execute_one_click_calibration
OneClickConfig(cfg) ==
    ExecutionConfig("full_auto", FALSE, TRUE, 2, 1000, cfg.progress_callback)

\* ---- the batch: execute_selected_steps / execute_one_click_calibration ----

BeginBatch(kind, ids) ==
    /\ execution_counter' = execution_counter + 1
    /\ exec_result' = ExecutionResult(<<"batch", execution_counter>>, "running")
    /\ current_status' = "running"
    /\ epc' = "loop"
    /\ run_kind' = kind
    /\ run_ids' = ids
    /\ idx' = 1
    /\ s_try' = 0
    /\ att_result' = None
    /\ returned' = None
    /\ h_started' = <<>>
    /\ h_cancelled' = FALSE
    /\ h_late_start' = FALSE
    /\ UNCHANGED <<stop_requested, execution_history>>
    /\ UNCHANGED <<commVars, stepVars>>
    /\ runs_left' = runs_left - 1
    /\ UNCHANGED <<silences_left, faults_left, calls_left>>
    /\ h_reset_in_step' = FALSE
    /\ h_callbacks' = <<>>
    /\ h_cb_raised' = FALSE
    /\ h_run_writes' = 0
    /\ UNCHANGED <<second_returned, c2_pc, single_returned>>
    /\ codecQuiet

StartSelected ==
    /\ epc = "idle"
    /\ runs_left > 0
    /\ \E ids \in RequestInputs : BeginBatch("selected", ids)
    /\ UNCHANGED <<e_config, original_config>>

StartOneClick ==
    /\ epc = "idle"
    /\ runs_left > 0
    /\ original_config' = Some(e_config)
    /\ e_config' = OneClickConfig(e_config)
    /\ BeginBatch("one_click", create_all_calibration_steps)

FinishWith_NoRestore(er) ==
    LET final == IF run_kind = "one_click"
                 THEN [er EXCEPT !.execution_id = <<"one_click", execution_counter - 1>>]
                 ELSE er
    IN /\ exec_result' = final
       /\ returned' = Some(final)
       /\ current_status' = "idle"
       /\ execution_history' = Append(execution_history, er.status)
       /\ epc' = "idle"
       /\ UNCHANGED <<e_config, original_config>>

\* the return of the batch call with ExecutionResult er: the finally clause of
\* execute_selected_steps, then the tail of execute_one_click_calibration
FinishWith(er) ==
    LET final == IF run_kind = "one_click"
                 THEN [er EXCEPT !.execution_id = <<"one_click", execution_counter - 1>>]
                 ELSE er
    IN /\ exec_result' = final
       /\ returned' = Some(final)
       /\ current_status' = "idle"
       /\ execution_history' = Append(execution_history, er.status)
       /\ epc' = "idle"
       /\ IF run_kind = "one_click"
          THEN e_config' = Val(original_config) /\ original_config' = None
          ELSE UNCHANGED <<e_config, original_config>>

Failed(er, err) == [er EXCEPT !.status = "failed", !.error_message = err]

\* "if self.config.progress_callback:"
Configured == e_config.progress_callback # "none"

\* the progress callback may raise at this call
CallbackMayRaise == e_config.progress_callback = "raises"

\* the callback's invocations after one for step id with status st, if one is configured
Invoked(id, st) == IF Configured THEN Append(h_callbacks, <<id, st>>) ELSE h_callbacks

UnknownStepOutcome_Skipped(er) == [er EXCEPT !.status = "completed"]

\* self.calibration_steps[step_id] raises KeyError for an unknown id and the
\* except clause of execute_selected_steps makes the run Failed
UnknownStepOutcome(er) == Failed(er, "batch_exception")

LoopHead ==
    /\ epc = "loop"
    /\ \/ /\ idx > Len(run_ids)
          /\ FinishWith([exec_result EXCEPT !.status = IF @ = "running" THEN "completed" ELSE @])
          /\ UNCHANGED <<h_started, h_late_start, stepVars, h_reset_in_step, h_callbacks, h_cb_raised>>
       \/ /\ idx <= Len(run_ids)
          /\ stop_requested
          /\ FinishWith([exec_result EXCEPT !.status = "cancelled"])
          /\ UNCHANGED <<h_started, h_late_start, stepVars, h_reset_in_step, h_callbacks, h_cb_raised>>
       \/ /\ idx <= Len(run_ids)
          /\ ~stop_requested
          /\ ~KnownStep(CurrentStep)
          /\ FinishWith(UnknownStepOutcome(exec_result))
          /\ UNCHANGED <<h_started, h_late_start, stepVars, h_reset_in_step, h_callbacks, h_cb_raised>>
       \/ /\ idx <= Len(run_ids)
          /\ ~stop_requested
          /\ KnownStep(CurrentStep)
          /\ CallbackMayRaise
          /\ FinishWith(Failed(exec_result, "batch_exception"))
          /\ h_callbacks' = Append(h_callbacks, <<CurrentStep, "running">>)
          /\ h_cb_raised' = TRUE
          /\ UNCHANGED <<h_started, h_late_start, stepVars, h_reset_in_step>>
       \/ /\ idx <= Len(run_ids)
          /\ ~stop_requested
          /\ KnownStep(CurrentStep)
          /\ epc' = "exec"
          /\ h_started' = Append(h_started, CurrentStep)
          /\ h_late_start' = (h_late_start \/ h_cancelled)
          /\ h_callbacks' = Invoked(CurrentStep, "running")
          /\ h_outcomes' = <<>>
          /\ h_reset_in_step' = FALSE
          /\ UNCHANGED <<exec_result, returned, current_status, execution_history,
                         e_config, original_config, step_status, step_result, h_cb_raised>>
    /\ UNCHANGED <<stop_requested, execution_counter, run_kind, run_ids, idx, s_try, att_result,
                   h_cancelled>>
    /\ UNCHANGED commVars
    /\ UNCHANGED envVars
    /\ UNCHANGED <<second_returned, c2_pc, single_returned, h_run_writes>>
    /\ codecQuiet

\* ---- one step.execute: CalibrationStep.execute and the entry of send_calibration_command ----

AttemptEnds(id, att) ==
    /\ step_status' = [step_status EXCEPT ![id] = att.status]
    /\ step_result' = [step_result EXCEPT ![id] = Some(att)]
    /\ h_outcomes' = Append(h_outcomes, att)
    /\ att_result' = Some(att)
    /\ epc' = "attempt_done"

FailedAttempt_AsSuccess(err) == StepResult("success", None, None, err)

\* the except clause of CalibrationStep.execute
FailedAttempt(err) == StepResult("failed", None, None, err)

Raised(err) == [ended |-> "raised", result |-> CommunicationResult(FALSE, None, err, 0)]

StepExecute ==
    /\ epc = "exec"
    /\ LET id == CurrentStep
           params == prepare_parameters(id, cal_params)
           frame == build_frame_excel_equivalent(get_di_code(id), params.value, None, None)
       IN IF ~params.ok
          THEN /\ AttemptEnds(id, FailedAttempt("prepare_overflow"))
               /\ UNCHANGED <<comm_status, counters, attempt, last_error, request_frame,
                              comm_result, h_writes, h_silent>>
          ELSE IF ~port_open
          THEN /\ AttemptEnds(id, FailedAttempt("port_not_open"))
               /\ comm_result' = Raised("port_not_open")
               /\ h_writes' = 0
               /\ UNCHANGED <<comm_status, counters, attempt, last_error, request_frame, h_silent>>
          ELSE IF ~frame.ok
          THEN /\ AttemptEnds(id, FailedAttempt("comm_exception"))
               /\ comm_status' = "error"
               /\ counters' = [counters EXCEPT !.failed_commands = @ + 1]
               /\ comm_result' = Raised("comm_exception")
               /\ h_writes' = 0
               /\ UNCHANGED <<attempt, last_error, request_frame, h_silent>>
          ELSE /\ step_status' = [step_status EXCEPT ![id] = "running"]
               /\ step_result' = [step_result EXCEPT ![id] = None]
               /\ UNCHANGED h_outcomes
               /\ comm_status' = "busy"
               /\ request_frame' = frame.value
               /\ attempt' = 0
               /\ last_error' = None
               /\ h_writes' = 0
               /\ h_silent' = TRUE
               /\ epc' = "write"
               /\ UNCHANGED <<counters, comm_result, att_result>>
    /\ UNCHANGED <<staticVars, e_config, original_config, current_status, stop_requested,
                   execution_counter, execution_history, exec_result, run_kind, run_ids, idx,
                   s_try, returned, h_started, h_cancelled, h_late_start>>
    /\ UNCHANGED envVars
    /\ UNCHANGED obsVars
    /\ codecQuiet

\* send_calibration_command called by a client of the communicator itself:
\* the commands of step1 and step2, and one with a 7-character identifier
DirectInputs == {"step1", "step2", "bad_di"}

\* di_code and parameter_data of a direct command
DirectDi(id) == IF KnownStep(id) THEN get_di_code(id) ELSE <<"0", "0", "F", "8", "1", "5", "0">>
DirectData(id) == IF KnownStep(id) THEN prepare_parameters(id, cal_params).value ELSE <<>>

SendCalibrationCommand ==
    /\ epc = "idle"
    /\ counters.total_commands_sent < MaxCommands
    /\ counters.failed_commands < 2 * MaxCommands
    /\ \E id \in DirectInputs :
         LET frame == build_frame_excel_equivalent(DirectDi(id), DirectData(id), None, None)
         IN IF ~port_open
            THEN /\ comm_result' = Raised("port_not_open")
                 /\ UNCHANGED <<comm_status, counters, request_frame, attempt, last_error,
                                h_silent, epc, run_kind>>
            ELSE IF ~frame.ok
            THEN /\ comm_status' = "error"
                 /\ counters' = [counters EXCEPT !.failed_commands = @ + 1]
                 /\ comm_result' = Raised("comm_exception")
                 /\ h_silent' = FALSE
                 /\ UNCHANGED <<request_frame, attempt, last_error, epc, run_kind>>
            ELSE /\ comm_status' = "busy"
                 /\ request_frame' = frame.value
                 /\ attempt' = 0
                 /\ last_error' = None
                 /\ h_silent' = TRUE
                 /\ epc' = "write"
                 /\ run_kind' = "direct"
                 /\ UNCHANGED <<comm_result, counters>>
    /\ h_writes' = 0
    /\ UNCHANGED <<staticVars, stepVars, e_config, original_config, current_status,
                   stop_requested, execution_counter, execution_history, exec_result, run_ids,
                   idx, s_try, att_result, returned, h_started, h_cancelled, h_late_start>>
    /\ UNCHANGED envVars
    /\ UNCHANGED obsVars
    /\ codecQuiet

\* ---- the retry loop of _send_with_retry and the tail of send_calibration_command ----

\* send_calibration_command after _send_with_retry returned result, and the rest
\* of step.execute
CommComplete(result) ==
    LET id == CurrentStep
        c1 == [counters EXCEPT !.total_commands_sent = @ + 1,
                               !.total_retry_count = @ + result.retry_count]
    IN IF result.success
       THEN /\ counters' = [c1 EXCEPT !.successful_commands = @ + 1]
            /\ comm_status' = "idle"
            /\ comm_result' = [ended |-> "returned", result |-> result]
            /\ IF run_kind = "direct"
               THEN epc' = "idle" /\ UNCHANGED <<stepVars, att_result>>
               ELSE AttemptEnds(id, StepResult("success",
                                               Some(process_response(id, Val(result.response_frame))),
                                               result.response_frame, "none"))
       ELSE /\ counters' = [c1 EXCEPT !.failed_commands = @ + 2]
            /\ comm_status' = "error"
            /\ comm_result' = [ended |-> "raised", result |-> result]
            /\ IF run_kind = "direct"
               THEN epc' = "idle" /\ UNCHANGED <<stepVars, att_result>>
               ELSE AttemptEnds(id, FailedAttempt(result.error_message))

AttemptsOf_NoInitial(max_retries) == max_retries
AttemptsOf_OneMore(max_retries) == max_retries + 1 + 1

\* range(self.config.max_retries + 1): how many attempts the loop makes
AttemptsOf(max_retries) == max_retries + 1

\* an attempt of _send_with_retry ended with the exception err
AttemptFailed(err) ==
    IF attempt + 1 < AttemptsOf(comm_config.max_retries)
    THEN /\ attempt' = attempt + 1
         /\ last_error' = Some(err)
         /\ epc' = "write"
         /\ UNCHANGED <<comm_status, counters, comm_result, stepVars, att_result>>
    ELSE /\ attempt' = attempt
         /\ last_error' = Some(err)
         /\ CommComplete(CommunicationResult(FALSE, None, err, comm_config.max_retries))

commFrame == <<staticVars, request_frame, e_config, original_config, current_status,
               stop_requested, execution_counter, execution_history, exec_result, run_kind,
               run_ids, idx, s_try, returned, h_started, h_cancelled, h_late_start>>

CommWrite ==
    /\ epc = "write"
    /\ \/ /\ h_writes' = h_writes + 1
          /\ h_run_writes' = h_run_writes + 1
          /\ epc' = "wait"
          /\ UNCHANGED <<comm_status, counters, attempt, last_error, comm_result, h_silent,
                         stepVars, att_result>>
          /\ UNCHANGED faults_left
       \/ /\ faults_left > 0
          /\ faults_left' = faults_left - 1
          /\ h_silent' = FALSE
          /\ AttemptFailed("send_failed")
          /\ UNCHANGED <<h_writes, h_run_writes>>
    /\ UNCHANGED commFrame
    /\ UNCHANGED <<silences_left, calls_left, runs_left>>
    /\ UNCHANGED <<h_reset_in_step, h_callbacks, h_cb_raised, second_returned, c2_pc, single_returned>>
    /\ codecQuiet

CommWait ==
    /\ epc = "wait"
    /\ \E rx \in {GoodResponse} \cup (IF silences_left > 0 THEN {<<>>} ELSE {})
                                \cup (IF faults_left > 0 THEN FaultRx ELSE {}) :
       /\ silences_left' = IF rx = <<>> THEN silences_left - 1 ELSE silences_left
       /\ faults_left' = IF rx \in FaultRx THEN faults_left - 1 ELSE faults_left
       /\
         IF rx = <<>>
         THEN /\ AttemptFailed("timeout")
              /\ UNCHANGED h_silent
         ELSE /\ h_silent' = FALSE
              /\ IF ~is_complete_frame(rx)
                 THEN AttemptFailed("incomplete")
                 ELSE LET v == IF comm_config.validate_response
                               THEN validate_response(request_frame, rx) ELSE "ok"
                      IN IF v # "ok"
                         THEN AttemptFailed(v)
                         ELSE /\ UNCHANGED <<attempt, last_error>>
                              /\ CommComplete(CommunicationResult(TRUE, Some(rx), "none", attempt))
    /\ UNCHANGED h_writes
    /\ UNCHANGED commFrame
    /\ UNCHANGED <<calls_left, runs_left>>
    /\ UNCHANGED obsVars
    /\ codecQuiet

\* ---- a second client of the communicator while a command is in flight ----

\* the first client's command is between its first write and its completion
FirstInFlight == run_kind = "direct" /\ epc \in {"write", "wait"}

secondFrame == <<staticVars, request_frame, attempt, last_error, comm_result, h_writes, h_silent,
                 stepVars, execVars, faults_left, calls_left, runs_left, h_reset_in_step,
                 h_callbacks, h_cb_raised, second_returned, single_returned, h_run_writes>>

\* send_calibration_command entered by a second thread while the status is
\* Busy: the status is not tested, the port is open, the frame is built and
\* _send_with_retry writes it
SecondSend ==
    /\ FirstInFlight
    /\ c2_pc = "off"
    /\ port_open
    /\ comm_status' = "busy"
    /\ c2_pc' = "sent"
    /\ UNCHANGED <<counters, silences_left>>
    /\ UNCHANGED secondFrame
    /\ codecQuiet

\* the rest of the second thread's command: a response is accepted, or every
\* attempt times out
SecondReceive ==
    /\ c2_pc = "sent"
    /\ \/ /\ c2_pc' = "returned"
          /\ comm_status' = "idle"
          /\ counters' = [counters EXCEPT !.total_commands_sent = @ + 1,
                                          !.successful_commands = @ + 1]
          /\ UNCHANGED silences_left
       \/ /\ silences_left >= AttemptsOf(comm_config.max_retries)
          /\ silences_left' = silences_left - AttemptsOf(comm_config.max_retries)
          /\ c2_pc' = "raised"
          /\ comm_status' = "error"
          /\ counters' = [counters EXCEPT !.total_commands_sent = @ + 1,
                                          !.total_retry_count = @ + comm_config.max_retries,
                                          !.failed_commands = @ + 2]
    /\ UNCHANGED secondFrame
    /\ codecQuiet

\* ---- execute_single_step after step.execute, and _retry_step ----

\* "return step.result", then the use of result.status in execute_single_step:
\* a result of None raises there and the except clause returns a Failed result
ReturnStepResult(id) ==
    IF IsSome(step_result[id]) THEN step_result[id] ELSE Some(FailedAttempt("single_exception"))

singleFrame == <<commVars, stepVars, e_config, original_config, current_status, stop_requested,
                 execution_counter, execution_history, exec_result, run_kind, run_ids, idx,
                 returned, h_started, h_cancelled, h_late_start>>

RetryRange_OneMore(max_retries) == max_retries + 1

\* range(max_retries) of _retry_step: how many times the step is executed again
RetryRange(max_retries) == max_retries

AfterAttempt ==
    /\ epc = "attempt_done"
    /\ LET r == Val(att_result)
       IN IF s_try = 0
          THEN IF r.status = "failed" /\ e_config.auto_retry_failed
               THEN IF RetryRange(e_config.max_step_retries) >= 1
                    THEN /\ s_try' = 1
                         /\ epc' = "exec"
                         /\ UNCHANGED att_result
                    ELSE /\ att_result' = ReturnStepResult(CurrentStep)
                         /\ epc' = "single_done"
                         /\ UNCHANGED s_try
               ELSE /\ epc' = "single_done"
                    /\ UNCHANGED <<s_try, att_result>>
          ELSE IF r.status = "success"
               THEN /\ epc' = "single_done"
                    /\ UNCHANGED <<s_try, att_result>>
               ELSE /\ epc' = "retry_sleep"
                    /\ UNCHANGED <<s_try, att_result>>
    /\ UNCHANGED singleFrame
    /\ UNCHANGED envVars
    /\ UNCHANGED obsVars
    /\ codecQuiet

RetrySleep ==
    /\ epc = "retry_sleep"
    /\ IF s_try < RetryRange(e_config.max_step_retries)
       THEN /\ s_try' = s_try + 1
            /\ epc' = "exec"
            /\ UNCHANGED att_result
       ELSE /\ att_result' = ReturnStepResult(CurrentStep)
            /\ epc' = "single_done"
            /\ UNCHANGED s_try
    /\ UNCHANGED singleFrame
    /\ UNCHANGED envVars
    /\ UNCHANGED obsVars
    /\ codecQuiet

\* ---- _execute_step_with_tracking after execute_single_step, and the loop body ----

Recorded(er, id, r) ==
    [er EXCEPT !.executed_steps = Append(@, id),
               !.step_results = [@ EXCEPT ![id] = Some(r)],
               !.successful_steps = IF r.status = "success" THEN Append(@, id) ELSE @,
               !.failed_steps = IF r.status = "failed" THEN Append(@, id) ELSE @,
               !.skipped_steps = IF r.status = "skipped" THEN Append(@, id) ELSE @]

StopsOnError_Never(r) == FALSE

\* "step_result.status == StepStatus.FAILED and self.config.stop_on_error"
StopsOnError(r) == r.status = "failed" /\ e_config.stop_on_error

Track ==
    /\ epc = "single_done"
    /\ run_kind # "single"
    /\ LET r == Val(att_result)
           er == Recorded(exec_result, CurrentStep, r)
       IN \/ /\ CallbackMayRaise
             /\ FinishWith(Failed(er, "batch_exception"))
             /\ h_cb_raised' = TRUE
             /\ UNCHANGED <<idx, s_try>>
          \/ /\ StopsOnError(r)
             /\ FinishWith(Failed(er, "step_failed_stop"))
             /\ UNCHANGED <<idx, s_try, h_cb_raised>>
          \/ /\ ~StopsOnError(r)
             /\ exec_result' = er
             /\ idx' = idx + 1
             /\ s_try' = 0
             /\ epc' = "loop"
             /\ UNCHANGED <<returned, current_status, execution_history, e_config,
                            original_config, h_cb_raised>>
    /\ h_callbacks' = Invoked(CurrentStep, Val(att_result).status)
    /\ UNCHANGED <<stop_requested, execution_counter, run_kind, run_ids, att_result,
                   h_started, h_cancelled, h_late_start>>
    /\ UNCHANGED <<commVars, stepVars>>
    /\ UNCHANGED envVars
    /\ UNCHANGED <<h_reset_in_step, second_returned, c2_pc, single_returned, h_run_writes>>
    /\ codecQuiet

\* ---- execute_single_step called by the client itself ----

SingleInputs == {"step1", "step2", "stepX"}

\* how a direct call ended: ValueError for an unknown id, else the StepResult returned
SingleOutcome(raised, result) == [raised |-> raised, result |-> result]

StartSingle ==
    /\ epc = "idle"
    /\ runs_left > 0
    /\ runs_left' = runs_left - 1
    /\ \E id \in SingleInputs :
         IF ~KnownStep(id)
         THEN /\ single_returned' = Some(SingleOutcome(TRUE, None))
              /\ UNCHANGED <<epc, run_kind, run_ids, idx, s_try, att_result, h_outcomes,
                             h_reset_in_step, h_callbacks, h_cb_raised, h_started,
                             h_cancelled, h_late_start>>
         ELSE /\ single_returned' = None
              /\ epc' = "exec"
              /\ run_kind' = "single"
              /\ run_ids' = <<id>>
              /\ idx' = 1
              /\ s_try' = 0
              /\ att_result' = None
              /\ h_outcomes' = <<>>
              /\ h_reset_in_step' = FALSE
              /\ h_callbacks' = <<>>
              /\ h_cb_raised' = FALSE
              /\ h_started' = <<>>
              /\ h_cancelled' = FALSE
              /\ h_late_start' = FALSE
    /\ UNCHANGED <<commVars, step_status, step_result, e_config, original_config,
                   current_status, stop_requested, execution_counter, execution_history,
                   exec_result, returned>>
    /\ h_run_writes' = 0
    /\ UNCHANGED <<silences_left, faults_left, calls_left, second_returned, c2_pc>>
    /\ codecQuiet

SingleReturn ==
    /\ epc = "single_done"
    /\ run_kind = "single"
    /\ single_returned' = Some(SingleOutcome(FALSE, att_result))
    /\ epc' = "idle"
    /\ UNCHANGED <<commVars, stepVars, e_config, original_config, current_status,
                   stop_requested, execution_counter, execution_history, exec_result,
                   run_kind, run_ids, idx, s_try, att_result, returned, h_started,
                   h_cancelled, h_late_start>>
    /\ UNCHANGED envVars
    /\ UNCHANGED <<h_reset_in_step, h_callbacks, h_cb_raised, second_returned, c2_pc,
                   h_run_writes>>
    /\ codecQuiet

\* ---- the operator's thread ----

ctlFrame == <<commVars, e_config, original_config, execution_counter, execution_history,
              exec_result, epc, run_kind, run_ids, idx, s_try, att_result, returned,
              h_started, h_late_start>>

CancelExecution ==
    /\ calls_left > 0
    /\ calls_left' = calls_left - 1
    /\ stop_requested' = TRUE
    /\ current_status' = IF current_status \in {"running", "paused"} THEN "cancelled"
                         ELSE current_status
    /\ h_cancelled' = (h_cancelled \/ epc # "idle")
    /\ UNCHANGED <<ctlFrame, stepVars>>
    /\ UNCHANGED <<silences_left, faults_left, runs_left>>
    /\ UNCHANGED obsVars
    /\ codecQuiet

PauseExecution ==
    /\ calls_left > 0
    /\ calls_left' = calls_left - 1
    /\ current_status = "running"
    /\ current_status' = "paused"
    /\ UNCHANGED <<ctlFrame, stepVars, stop_requested, h_cancelled>>
    /\ UNCHANGED <<silences_left, faults_left, runs_left>>
    /\ UNCHANGED obsVars
    /\ codecQuiet

ResumeExecution ==
    /\ calls_left > 0
    /\ calls_left' = calls_left - 1
    /\ current_status = "paused"
    /\ current_status' = "running"
    /\ UNCHANGED <<ctlFrame, stepVars, stop_requested, h_cancelled>>
    /\ UNCHANGED <<silences_left, faults_left, runs_left>>
    /\ UNCHANGED obsVars
    /\ codecQuiet

ResetAllSteps ==
    /\ calls_left > 0
    /\ calls_left' = calls_left - 1
    /\ step_status' = [i \in StepIdSet |-> "pending"]
    /\ step_result' = [i \in StepIdSet |-> None]
    /\ current_status' = "idle"
    /\ stop_requested' = FALSE
    /\ UNCHANGED <<ctlFrame, h_cancelled>>
    /\ UNCHANGED <<silences_left, faults_left, runs_left>>
    /\ h_reset_in_step' = (h_reset_in_step \/ epc \in {"exec", "write", "wait", "attempt_done", "retry_sleep"})
    /\ UNCHANGED <<h_outcomes, h_callbacks, h_cb_raised, second_returned, c2_pc, single_returned,
                   h_run_writes>>
    /\ codecQuiet

\* ---- a second caller of execute_selected_steps while a batch is in progress ----

\* requests of the second caller: nothing, an unknown id, one known step
SecondRequests == {<<>>, <<"stepX">>, <<"step2">>}

\* execute_selected_steps entered by a second thread while the first batch has
\* not returned. The method has no busy test; the whole call is taken in one
\* step for requests that make no device exchange (step2 is requested only
\* when its prepare_parameters raises), and the result is the second caller's.
SecondBatch ==
    /\ epc # "idle"
    /\ run_kind \in {"selected", "one_click"}
    /\ second_returned = None
    /\ calls_left > 0
    /\ calls_left' = calls_left - 1
    /\ \E ids \in SecondRequests :
         LET base == ExecutionResult(<<"batch", execution_counter>>, "running")
             r == FailedAttempt("prepare_overflow")
             er == Recorded(base, "step2", r)
             quiet == UNCHANGED <<step_status, step_result>>
         IN \/ /\ ids = <<>>
               /\ second_returned' = Some([base EXCEPT !.status = "completed"])
               /\ quiet
            \/ /\ ids # <<>>
               /\ stop_requested
               /\ second_returned' = Some([base EXCEPT !.status = "cancelled"])
               /\ quiet
            \/ /\ ids = <<"stepX">>
               /\ ~stop_requested
               /\ second_returned' = Some(Failed(base, "batch_exception"))
               /\ quiet
            \/ /\ ids = <<"step2">>
               /\ ~stop_requested
               /\ ~prepare_parameters("step2", cal_params).ok
               /\ CallbackMayRaise
               /\ second_returned' = Some(Failed(base, "batch_exception"))
               /\ quiet
            \/ /\ ids = <<"step2">>
               /\ ~stop_requested
               /\ ~prepare_parameters("step2", cal_params).ok
               /\ second_returned' = Some(IF StopsOnError(r)
                                          THEN Failed(er, "step_failed_stop")
                                          ELSE [er EXCEPT !.status = "completed"])
               /\ step_status' = [step_status EXCEPT !["step2"] = "failed"]
               /\ step_result' = [step_result EXCEPT !["step2"] = Some(r)]
    /\ execution_counter' = execution_counter + 1
    /\ current_status' = "idle"
    /\ execution_history' = Append(execution_history, Val(second_returned').status)
    /\ UNCHANGED <<commVars, h_outcomes, e_config, original_config, stop_requested, exec_result,
                   epc, run_kind, run_ids, idx, s_try, att_result, returned, h_started,
                   h_cancelled, h_late_start>>
    /\ UNCHANGED <<silences_left, faults_left, runs_left>>
    /\ UNCHANGED <<h_reset_in_step, h_callbacks, h_cb_raised, c2_pc, single_returned,
                   h_run_writes>>
    /\ codecQuiet


(***************************************************************************)
(* Specifications                                                          *)
(***************************************************************************)
vars == <<codecVars, fnVars, sysVars>>

InitCodec == CodecInit /\ FnIdle /\ SysIdle

NextCodec ==
    \/ Build /\ UNCHANGED <<fnVars, sysVars>>
    \/ Parse /\ UNCHANGED <<fnVars, sysVars>>

SpecCodec == InitCodec /\ [][NextCodec]_vars

\* single calls of the codec's functions
InitFn ==
    /\ CodecIdle
    /\ SysIdle
    /\ f_pc = "input"
    /\ f_out = <<>>
    /\ \/ CorruptInputs
       \/ ParseInputs
       \/ OffsetInputs
       \/ EncodeInputs
       \/ PrepareInputs

NextFn ==
    \/ ParseCorrupted /\ UNCHANGED <<codecVars, sysVars>>
    \/ ParseBytes /\ UNCHANGED <<codecVars, sysVars>>
    \/ ApplyOffset /\ UNCHANGED <<codecVars, sysVars>>
    \/ Encode /\ UNCHANGED <<codecVars, sysVars>>
    \/ Decode /\ UNCHANGED <<codecVars, sysVars>>
    \/ PrepareStep2 /\ UNCHANGED <<codecVars, sysVars>>

SpecFn == InitFn /\ [][NextFn]_vars

Init == CodecIdle /\ FnIdle /\ SysInit

Next ==
    \/ StartSelected
    \/ StartOneClick
    \/ LoopHead
    \/ StepExecute
    \/ CommWrite
    \/ CommWait
    \/ AfterAttempt
    \/ RetrySleep
    \/ Track
    \/ StartSingle
    \/ SingleReturn
    \/ CancelExecution
    \/ PauseExecution
    \/ ResumeExecution
    \/ ResetAllSteps
    \/ SecondBatch

Spec == Init /\ [][Next]_vars

\* the steps of the thread that runs a batch: every for loop of the executor
\* and the communicator, the write that returns and the read that delivers
\* bytes or reaches its deadline
ThreadNext ==
    \/ LoopHead
    \/ CommWrite
    \/ AfterAttempt
    \/ RetrySleep
    \/ Track

\* weak fairness of StepExecute and of CommWait, with their enabling
\* conditions written out: StepExecute can be taken in every state where the
\* thread is at "exec" (step.execute returns in every branch), CommWait in every
\* state where it is at "wait" (the read delivers bytes or reaches its deadline)
ExecuteReturns == []<>(epc # "exec") \/ []<><<StepExecute>>_vars

ReadReturns == []<>(epc # "wait") \/ []<><<CommWait>>_vars

\* one execute_selected_steps call with the operator's thread beside it, the
\* port open and no progress callback
InitLive ==
    /\ CodecIdle
    /\ FnIdle
    /\ \E ccfg \in CommConfigInputs, ecfg \in ConfigInputs :
          /\ ccfg.validate_response
          /\ ecfg.progress_callback = "none"
          /\ SysInitWith(DefaultParameters, ccfg, ecfg, TRUE, <<MaxSilences, 0, MaxCalls, MaxRuns>>)

NextLive ==
    \/ StartSelected
    \/ LoopHead
    \/ StepExecute
    \/ CommWrite
    \/ CommWait
    \/ AfterAttempt
    \/ RetrySleep
    \/ Track
    \/ CancelExecution
    \/ PauseExecution
    \/ ResumeExecution
    \/ ResetAllSteps

\* the thread of the call is never halted for ever
SpecLive == InitLive /\ [][NextLive]_vars /\ WF_vars(ThreadNext) /\ ExecuteReturns /\ ReadReturns

\* execute_one_click_calibration, which executes every step, on a line whose
\* device may stay silent and may misbehave
InitStep ==
    /\ CodecIdle
    /\ FnIdle
    /\ \E ccfg \in CommConfigInputs :
          SysInitWith(DefaultParameters, ccfg, DefaultExecutionConfig, TRUE,
                      <<MaxSilences, MaxFaults, 0, MaxRuns>>)

NextStep ==
    \/ StartOneClick
    \/ LoopHead
    \/ StepExecute
    \/ CommWrite
    \/ CommWait
    \/ AfterAttempt
    \/ RetrySleep
    \/ Track

SpecStep == InitStep /\ [][NextStep]_vars

\* the communicator alone, driven by direct commands
InitComm ==
    /\ CodecIdle
    /\ FnIdle
    /\ \E ccfg \in CommConfigInputs, popen \in BOOLEAN :
         SysInitWith(DefaultParameters, ccfg, DefaultExecutionConfig, popen,
                     <<MaxCommands * (MaxCommRetries + 1), MaxCommands * MaxFaults, 0, 0>>)

NextComm ==
    \/ SendCalibrationCommand
    \/ CommWrite
    \/ CommWait
    \/ SecondSend
    \/ SecondReceive

SpecComm == InitComm /\ [][NextComm]_vars

(***************************************************************************)
(* Claims about the codec (checked under SpecCodec)                        *)
(***************************************************************************)
ValidHexId(d) == Len(d) = 8 /\ \A i \in 1..8 : IsHexChar(d[i])
IdByte(d, k) == HexVal(d[2 * k + 1]) * 16 + HexVal(d[2 * k + 2])
ToUpperId(d) == [i \in 1..Len(d) |-> HexUpper[HexVal(d[i]) + 1]]
Built == c_pc \in {"built", "parsed"}
Frame == c_built.value
\* the four identifier bytes of the payload with the offset taken off again
PayloadDiBytes == [i \in 1..4 |-> (Frame[10 + i] - 51) % 256]

ReferenceFrame ==
    << 104, 17, 17, 17, 17, 17, 17, 104, 20, 13, 51, 72, 43, 51,
       51, 51, 51, 51, 52, 51, 51, 51, 51, 252, 22 >>

ReferenceInput ==
    c_di = DI_00F81500 /\ c_params = <<>> /\ c_address = None /\ c_control = None

\* C1: build("00F81500", no parameter bytes, default address, default control)
\* returns exactly the 25 bytes 68 11 11 11 11 11 11 68 14 0D 33 48 2B 33 33 33
\* 33 33 34 33 33 33 33 FC 16.
C1_ReferenceFrame ==
    (Built /\ ReferenceInput) => (c_built.ok /\ Frame = ReferenceFrame /\ Len(Frame) = 25)

C1_Witness == c_pc = "built" /\ ReferenceInput /\ c_built.ok

\* C2: whenever build accepts its input, parse of the frame it returns reports
\* Success with checksum_valid true.
C2_ParseOfBuildSucceeds ==
    /\ (c_pc = "parsed") =>
          (Val(c_parsed).parse_result = "success" /\ Val(c_parsed).checksum_valid)
    /\ (c_pc = "built" /\ c_built.ok) =>
          LET p == parse_frame(Frame)
          IN p.parse_result = "success" /\ p.checksum_valid

C2_Witness ==
    /\ c_pc = "parsed"
    /\ c_params # <<>>
    /\ c_address = Some(<<1, 2, 3, 4, 5, 6>>)
    /\ Val(c_parsed).parse_result = "success"

C4_Claimed_RoundTripExact ==
    (c_pc = "parsed" /\ ValidHexId(c_di)) => Val(c_parsed).di_original = Some(c_di)

\* C4 (amended): for every valid 8-hex-digit identifier D, parse of the built frame
\* yields di_original equal to D written with upper-case hexadecimal digits (the
\* same four bytes; equal to D itself when D has no lower-case digit).
C4_RoundTripUpperCase ==
    (c_pc = "parsed" /\ ValidHexId(c_di)) => Val(c_parsed).di_original = Some(ToUpperId(c_di))

C4_Witness ==
    /\ c_pc = "parsed"
    /\ ValidHexId(c_di)
    /\ IdByte(c_di, 1) # IdByte(c_di, 2)
    /\ IdByte(c_di, 0) # IdByte(c_di, 3)
    /\ Val(c_parsed).di_original = Some(c_di)

\* C5 (as claimed): the identifier bytes in the payload, before the offset, are
\* [byte3, byte1, byte0, byte2] of the identifier's big-endian bytes.
C5_Claimed_Order3102 ==
    (Built /\ c_built.ok /\ ValidHexId(c_di)) =>
        PayloadDiBytes = <<IdByte(c_di, 3), IdByte(c_di, 1), IdByte(c_di, 0), IdByte(c_di, 2)>>

\* C5 (amended): the identifier bytes in the payload, before the offset, are
\* [byte3, byte2, byte1, byte0]: a plain byte reversal, for every valid identifier.
C5_OrderReversed ==
    (Built /\ c_built.ok /\ ValidHexId(c_di)) =>
        PayloadDiBytes = <<IdByte(c_di, 3), IdByte(c_di, 2), IdByte(c_di, 1), IdByte(c_di, 0)>>

C5_Witness ==
    /\ c_pc = "built"
    /\ c_built.ok
    /\ ValidHexId(c_di)
    /\ Cardinality({IdByte(c_di, k) : k \in 0..3}) = 4

\* C24 (as claimed): for every identifier that is not exactly 8 hexadecimal
\* digit characters, reverse_di_bytes fails and build fails, producing no
\* frame.
C24_Claimed_InvalidIdRejected ==
    (Built /\ ~ValidHexId(c_di)) =>
        /\ ~reverse_di_bytes(c_di).ok
        /\ ~c_built.ok
        /\ c_built.value = <<>>

\* the identifier "+1234567" passed int(di_hex, 16) and build returned a
\* frame whose identifier bytes are 67 45 23 01
C24_Witness ==
    /\ Built
    /\ c_di = <<"+", "1", "2", "3", "4", "5", "6", "7">>
    /\ ~ValidHexId(c_di)
    /\ reverse_di_bytes(c_di).ok
    /\ c_built.ok
    /\ PayloadDiBytes = <<103, 69, 35, 1>>

\* C25 (as claimed): in every frame build returns, the length byte (index 9)
\* is the number of payload bytes, that number is 4 + len(parameter_data) +
\* 4 + 4 + 1, and the frame is 12 + that many bytes long; no frame carries a
\* wrapped length.
C25_Claimed_LengthIsPayload ==
    (Built /\ c_built.ok) =>
        /\ Frame[LENGTH_INDEX + 1] = Len(Frame) - 12
        /\ Frame[LENGTH_INDEX + 1] = 4 + Len(c_params) + 4 + 4 + 1

\* the identifier "  123456" is accepted and split into three groups only:
\* the frame has 3 identifier bytes and its length byte is 12, not 13
C25_Witness ==
    /\ Built
    /\ c_built.ok
    /\ c_di = <<" ", " ", "1", "2", "3", "4", "5", "6">>
    /\ c_params = <<>>
    /\ Frame[LENGTH_INDEX + 1] = 12
    /\ Len(Frame) = 24

(***************************************************************************)
(* Claims about single calls of the codec's functions (SpecFn)             *)
(***************************************************************************)
\* parse_frame has been applied to a corrupted built frame
CorruptParsed == f_pc = "done" /\ f_in.fn = "parse_corrupted"

\* C23 (as claimed): replacing any single byte of a built frame by a
\* different value makes parse report ChecksumError or InvalidFormat.
C23_Claimed_ChecksumOrFormat ==
    CorruptParsed => f_out.parse_result \in {"checksum_error", "invalid_format"}

\* C23: replacing any single byte of a built frame by a different value is
\* always detected, never Success: a start marker or the end marker gives
\* InvalidFormat, the length byte gives LengthError, every other byte
\* (address, control code, payload, checksum) gives ChecksumError.
C23_CorruptionDetected ==
    CorruptParsed =>
        LET n == Len(f_in.bytes)
            expected == IF f_in.pos \in {0, 7, n - 1} THEN "invalid_format"
                        ELSE IF f_in.pos = LENGTH_INDEX THEN "length_error"
                        ELSE "checksum_error"
        IN f_out.parse_result = expected

\* the length byte of the reference frame replaced: LengthError
C23_Witness ==
    /\ CorruptParsed
    /\ f_in.bytes = ReferenceFrame
    /\ f_in.pos = LENGTH_INDEX
    /\ f_in.val = 14
    /\ f_out.parse_result = "length_error"

ParseOutcomes ==
    {"success", "invalid_format", "checksum_error", "length_error", "unknown_error"}

BytesParsed == f_pc = "done" /\ f_in.fn = "parse"

\* C26: parse returns, for every byte string (the empty one included), a
\* result whose outcome is one of Success, InvalidFormat, ChecksumError,
\* LengthError and UnknownError, and the outcome of every byte string shorter
\* than 12 bytes is LengthError.
C26_ParseTotal ==
    BytesParsed =>
        /\ f_out.parse_result \in ParseOutcomes
        /\ f_out.raw_frame = f_in.bytes
        /\ Len(f_in.bytes) < 12 => f_out.parse_result = "length_error"

\* the run of eleven zero bytes is parsed: too short, although its first
\* byte is no start marker
C26_Witness ==
    /\ BytesParsed
    /\ f_in.bytes = [i \in 1..11 |-> 0]
    /\ f_out.parse_result = "length_error"

OffsetApplied == f_pc = "done" /\ f_in.fn = "offset"

\* C27: subtracting 0x33 modulo 256 from each byte of apply_data_offset(P),
\* as the parser does, gives back P; every output byte is in 0..255, and the
\* addition wraps: 0xFF becomes 0x32 and 0xCC becomes 0xFF.
C27_OffsetRoundTrip ==
    OffsetApplied =>
        /\ Len(f_out) = Len(f_in.bytes)
        /\ remove_data_offset(f_out) = f_in.bytes
        /\ \A i \in 1..Len(f_out) :
              /\ f_out[i] \in 0..255
              /\ f_in.bytes[i] = 255 => f_out[i] = 50
              /\ f_in.bytes[i] = 204 => f_out[i] = 255

\* a list with both bytes of the claim has been offset, one of them wrapped
C27_Witness ==
    /\ OffsetApplied
    /\ f_in.bytes = <<255, 204>>
    /\ f_out = <<50, 255>>

Encoded == f_in.fn = "encode" /\ f_pc \in {"encoded", "done"}
RoundTripDone == f_in.fn = "encode" /\ f_pc = "done"

\* the integer s lies in the range of the kind's byte width and signedness:
\* 0 .. 2^(8w) - 1 unsigned, -2^(8w-1) .. 2^(8w-1) - 1 signed
Representable(s, config) ==
    LET m == Big(FALSE, s.hi, s.lo)
        half == BigPow2(8 * config.bytes - 1)
    IN IF ~config.signed THEN ~s.neg /\ s.hi < 2 ^ (8 * config.bytes - 16)
       ELSE IF s.neg THEN MagLeq(m, half)
       ELSE MagLeq(m, half) /\ m # half

\* C29: for every kind and every value whose scaled integer fits the kind's
\* byte width and signedness, encode succeeds and decode of its bytes returns
\* that scaled integer divided by the kind's scale; the scaled integer of a
\* value at the kind's precision is the value times the scale.
C29_EncodeDecodeRoundTrip ==
    /\ Encoded =>
          /\ f_in.x.tenth = 0 => f_out.scaled_value = Big(f_in.x.neg, f_in.x.hi, f_in.x.lo)
          /\ Representable(f_out.scaled_value, encoding_configs[f_in.kind]) => f_out.encoded.ok
    /\ RoundTripDone =>
          f_out.decoded = Some(Ok([num |-> f_out.scaled_value,
                                   den |-> encoding_configs[f_in.kind].scale]))

\* 220.00 V was encoded to the two little-endian bytes of 22000 and decoded
\* to 22000 / 100
C29_Witness ==
    /\ RoundTripDone
    /\ f_in.kind = "voltage"
    /\ f_in.x = PhysicalValue(FALSE, 0, 22000, 0)
    /\ f_out.encoded = Ok(<<240, 85>>)
    /\ f_out.decoded = Some(Ok([num |-> Big(FALSE, 0, 22000), den |-> 100]))

\* C30: encode never wraps or truncates: a scaled integer outside the range
\* of the kind's byte width and signedness makes it fail and return no byte,
\* and the bytes it returns are exactly as many as the kind's width, each in
\* 0..255, and read back little-endian they are the scaled integer.
C30_EncodeNeverWraps ==
    Encoded =>
        LET config == encoding_configs[f_in.kind]
            r == f_out.encoded
        IN /\ ~Representable(f_out.scaled_value, config) => (~r.ok /\ r.value = <<>>)
           /\ r.ok =>
                 /\ Len(r.value) = config.bytes
                 /\ \A i \in 1..Len(r.value) : r.value[i] \in 0..255
                 /\ wide_from_bytes(r.value, config.signed) = f_out.scaled_value

\* a current whose product with the scale rounds up to 2^32 was refused
C30_Witness ==
    /\ Encoded
    /\ f_in.kind = "current"
    /\ f_in.x = PhysicalValue(FALSE, 65535, 65535, 6)
    /\ f_out.scaled_value = Big(FALSE, 65536, 0)
    /\ ~f_out.encoded.ok

Prepared == f_pc = "done" /\ f_in.fn = "prepare"

InCodecRange(p) ==
    /\ p.standard_voltage >= parameter_ranges.voltage.min_value
    /\ p.standard_voltage <= parameter_ranges.voltage.max_value
    /\ p.standard_current >= parameter_ranges.current.min_value
    /\ p.standard_current <= parameter_ranges.current.max_value

\* C32 (as claimed): for every standard voltage and standard current inside
\* the codec's ranges, step2's prepare_parameters succeeds and returns the
\* codec's encoding of the voltage followed by its encoding of the current.
C32_Claimed_PrepareIsCodec ==
    (Prepared /\ InCodecRange(f_in.x)) =>
        /\ f_out.codec.ok
        /\ f_out.prepared.ok
        /\ f_out.prepared.value = f_out.codec.value

\* 220 V and 1 A: prepare_parameters returned four bytes, the current in two,
\* where the codec gives the current four
C32_Witness ==
    /\ Prepared
    /\ f_in.x = DefaultParameters
    /\ f_out.prepared = Ok(<<240, 85, 232, 3>>)
    /\ f_out.codec = Ok(<<240, 85, 232, 3, 0, 0>>)

(***************************************************************************)
(* Claims about the communicator (SpecComm)                                *)
(***************************************************************************)
\* a command has returned or raised and no other has been started since
CommandDone == epc = "idle" /\ comm_result.ended # "none"

\* every attempt of the command was written and none received a byte
SilentLine == port_open /\ h_silent

MeetsValidation(request, response) ==
    LET req == parse_frame(request)
        resp == parse_frame(response)
    IN /\ resp.parse_result = "success"
       /\ resp.address = req.address
       /\ resp.control_code = Some(BitOr80(Val(req.control_code)))
       /\ resp.checksum_valid

\* C7 (as claimed): with validation enabled a command returns a response only
\* if it parses, has the request's address, has the request's control code
\* with bit 0x80 set, and has a valid checksum.
C7_Claimed_ReturnedResponseValid ==
    (CommandDone /\ comm_config.validate_response /\ comm_result.result.success) =>
        MeetsValidation(request_frame, Val(comm_result.result.response_frame))

\* C7: the state the claim excludes: a command returned a response whose
\* control code is 0x00
C7_Witness ==
    /\ CommandDone /\ comm_config.validate_response /\ comm_result.result.success
    /\ comm_result.result.response_frame = Some(ZeroControlResponse)
    /\ parse_frame(ZeroControlResponse).control_code = Some(0)

\* C18 (as claimed): a send_calibration_command issued while the status is
\* Busy is rejected without writing to the transport, so two commands are
\* never in flight on the transport together.
C18_Claimed_OneCommandInFlight ==
    ~(FirstInFlight /\ c2_pc = "sent")

\* the first command has written its frame and waits for the response, and a
\* second command, issued while the status was Busy, has written its own
C18_Witness ==
    /\ FirstInFlight
    /\ epc = "wait"
    /\ h_writes = 1
    /\ c2_pc = "sent"
    /\ comm_status = "busy"

\* a command of the only client has completed
OnlyCommandDone == CommandDone /\ c2_pc = "off"

\* C19 (as claimed): with one client, the status is Busy only while a command
\* is being processed, and when send_calibration_command has completed the
\* status is Idle if it returned a response and Error if it failed, whatever
\* the cause (port not open, frame-build error, exhausted retries).
C19_Claimed_StatusFollowsOutcome ==
    c2_pc = "off" =>
        /\ comm_status = "busy" <=> FirstInFlight
        /\ (OnlyCommandDone /\ comm_result.ended = "returned") => comm_status = "idle"
        /\ (OnlyCommandDone /\ comm_result.ended = "raised") => comm_status = "error"

\* the command failed because the port is not open and the status is Idle
C19_Witness ==
    /\ OnlyCommandDone
    /\ ~port_open
    /\ comm_result = Raised("port_not_open")
    /\ comm_status = "idle"
    /\ h_writes = 0

\* the checks of _validate_response that can fail
ValidationKinds ==
    {"validation_parse", "validation_address", "validation_control", "validation_checksum"}

\* C28 (as claimed): an attempt whose deadline passed with no byte received
\* ended with the timeout error, and an attempt whose deadline passed with
\* some bytes but no complete frame ended with an error of a kind of its own,
\* neither the timeout's nor that of a failed response validation.
C28_Claimed_IncompleteIsDistinct ==
    /\ last_error = Some("timeout") => ErrorClass("timeout") = "TimeoutError"
    /\ last_error = Some("incomplete") =>
          \A k \in ValidationKinds \cup {"timeout"} : ErrorClass("incomplete") # ErrorClass(k)

\* a command whose last attempt received three bytes has failed, and its
\* error is a ResponseValidationError
C28_Witness ==
    /\ CommandDone
    /\ last_error = Some("incomplete")
    /\ ~comm_result.result.success
    /\ comm_result.result.error_message = "incomplete"
    /\ comm_result.result.error_class = "ResponseValidationError"

\* C33 (as claimed): with no reset of the statistics, total_commands_sent
\* equals successful_commands + failed_commands after any sequence of
\* send_calibration_command calls.
C33_Claimed_CountersAddUp ==
    counters.total_commands_sent = counters.successful_commands + counters.failed_commands

\* one command reached the transport and failed there: it was counted once as
\* sent and twice as failed
C33_Witness ==
    /\ CommandDone
    /\ comm_result.ended = "raised"
    /\ h_writes > 0
    /\ counters.total_commands_sent = 1
    /\ counters.successful_commands = 0
    /\ counters.failed_commands = 2

(***************************************************************************)
(* Claims about the executor (Spec)                                        *)
(***************************************************************************)
SeqToSet(q) == {q[i] : i \in 1..Len(q)}

\* the batch call has returned its ExecutionResult
Returned == IsSome(returned)

\* C8: in execute_selected_steps with stop_on_error set, once a step is
\* recorded Failed the run has returned: executed_steps is the first k
\* requested ids, the failed one last and the only failed one, the status is
\* Failed, and no step beyond the k-th was started.
C8_StopOnErrorStopsThere ==
    (run_kind = "selected" /\ e_config.stop_on_error /\ exec_result.failed_steps # <<>>) =>
        LET k == Len(exec_result.executed_steps)
        IN /\ Returned /\ epc = "idle"
           /\ Val(returned) = exec_result
           /\ exec_result.status = "failed"
           /\ IsPrefix(exec_result.executed_steps, run_ids)
           /\ exec_result.failed_steps = <<run_ids[k]>>
           /\ exec_result.successful_steps = SubSeq(run_ids, 1, k - 1)
           /\ h_started = exec_result.executed_steps

\* a failing second of three: the third is never started
C8_Witness ==
    /\ run_kind = "selected" /\ e_config.stop_on_error /\ Returned
    /\ Len(run_ids) = 3
    /\ exec_result.executed_steps = SubSeq(run_ids, 1, 2)
    /\ exec_result.failed_steps = <<run_ids[2]>>
    /\ exec_result.status = "failed"
    /\ h_started = SubSeq(run_ids, 1, 2)

\* executed_steps holds the five ids in order and each is filed under its outcome
AllFiveFiled(er) ==
    /\ er.executed_steps = STEP_IDS
    /\ \A id \in StepIdSet :
         /\ IsSome(er.step_results[id])
         /\ id \in SeqToSet(er.failed_steps) <=> Val(er.step_results[id]).status = "failed"
         /\ id \in SeqToSet(er.successful_steps) <=> Val(er.step_results[id]).status = "success"

\* C9 (as claimed): a one-click run that nobody cancels executes all five
\* steps in the declared order, whatever stop_on_error is configured and
\* whichever steps fail, and files each id under failed_steps or
\* successful_steps.
C9_Claimed_OneClickRunsAllFive ==
    (run_kind = "one_click" /\ Returned /\ ~h_cancelled) => AllFiveFiled(Val(returned))

\* C9: the state the claim excludes: step2 failed, the callback raised on it,
\* and the one-click run returned without step3..step5
C9_Witness ==
    /\ run_kind = "one_click" /\ Returned /\ ~h_cancelled
    /\ Val(returned).executed_steps = <<"step1", "step2">>
    /\ Val(returned).failed_steps = <<"step2">>
    /\ Val(returned).status = "failed"

\* C10 (as claimed): when cancel_execution was called while
\* execute_selected_steps was running, the returned result is Cancelled and no
\* step was started after the call.
C10_Claimed_CancelGivesCancelled ==
    (run_kind = "selected" /\ Returned /\ h_cancelled) =>
        /\ Val(returned).status = "cancelled"
        /\ ~h_late_start

\* C10: the state the claim excludes: cancelled during its only step, with
\* the flag still set, the run returned Completed
C10_Witness ==
    /\ run_kind = "selected" /\ Returned /\ h_cancelled /\ stop_requested
    /\ run_ids = <<"step1">>
    /\ e_config.progress_callback = "none"
    /\ Val(returned).status = "completed"
    /\ Val(returned).executed_steps = <<"step1">>

\* execute_single_step has its result in hand and has not yet returned it
SingleStepDone == epc = "single_done"

\* how many re-executions the configuration allows
RetryCap == IF e_config.auto_retry_failed THEN e_config.max_step_retries ELSE 0

AllPhasesCompleted ==
    /\ prepare_parameters(CurrentStep, cal_params).ok
    /\ port_open
    /\ comm_result.ended = "returned"
    /\ comm_result.result.success

\* C12: every step.execute ends by returning a StepResult that is also the
\* step's result, with the step's status equal to its status; it is Failed
\* with an error message when preparing, sending or processing raised and
\* Success exactly when all three phases completed.
C12_ExecuteNeverPropagates ==
    [][(epc # "attempt_done" /\ epc' = "attempt_done") =>
          LET r == Val(att_result)'
              id == CurrentStep
          IN /\ IsSome(att_result')
             /\ h_outcomes' = Append(h_outcomes, r)
             /\ step_result'[id] = Some(r)
             /\ step_status'[id] = r.status
             /\ r.status \in {"success", "failed"}
             /\ r.status = "failed" => r.error_message # "none"
             /\ r.status = "success" <=> AllPhasesCompleted']_vars

\* the preparation of step2's parameters raised and execute returned Failed
C12_Witness ==
    /\ epc = "attempt_done"
    /\ CurrentStep = "step2"
    /\ ~prepare_parameters("step2", cal_params).ok
    /\ att_result = Some(FailedAttempt("prepare_overflow"))
    /\ step_status["step2"] = "failed"

\* a run of execute_selected_steps over known step ids, in progress or returned
SelectedKnownRun ==
    /\ run_kind = "selected"
    /\ exec_result # NoExecution
    /\ \A i \in 1..Len(run_ids) : KnownStep(run_ids[i])

\* the recorded result of id in the run's step_results has status st
RecordedAs(id, st) ==
    /\ IsSome(exec_result.step_results[id])
    /\ Val(exec_result.step_results[id]).status = st

\* C13 (as claimed): during and after a run of execute_selected_steps over
\* known ids, duplicates allowed, executed_steps is a prefix of the request,
\* every executed id has a step result, the three partitions' lengths sum to
\* the length of executed_steps, and every id in successful_steps
\* (failed_steps) has a recorded result of status Success (Failed).
C13_Claimed_BookkeepingConsistent ==
    SelectedKnownRun =>
        /\ IsPrefix(exec_result.executed_steps, run_ids)
        /\ \A id \in SeqToSet(exec_result.executed_steps) : IsSome(exec_result.step_results[id])
        /\ Len(exec_result.successful_steps) + Len(exec_result.failed_steps)
             + Len(exec_result.skipped_steps) = Len(exec_result.executed_steps)
        /\ \A id \in SeqToSet(exec_result.successful_steps) : RecordedAs(id, "success")
        /\ \A id \in SeqToSet(exec_result.failed_steps) : RecordedAs(id, "failed")

\* step3 requested twice: the first execution Failed, the second succeeded
\* and its result replaced the first in step_results, while failed_steps
\* still lists step3
C13_Witness ==
    /\ SelectedKnownRun
    /\ Returned
    /\ run_ids = <<"step3", "step3">>
    /\ exec_result.executed_steps = run_ids
    /\ exec_result.failed_steps = <<"step3">>
    /\ exec_result.successful_steps = <<"step3">>
    /\ RecordedAs("step3", "success")

\* a step is being executed: execute_single_step has been entered for
\* CurrentStep and its result has not yet been handed back
InStep == epc \in {"exec", "write", "wait", "attempt_done", "retry_sleep", "single_done"}

\* the direct execute_single_step call on a known id has returned
SingleReturned == IsSome(single_returned) /\ ~Val(single_returned).raised

\* the callback was told Running and then the terminal status of the k-th
\* executed step of the batch
ToldTwice(k) ==
    LET id == exec_result.executed_steps[k]
    IN /\ Len(h_callbacks) >= 2 * k
       /\ h_callbacks[2 * k - 1] = <<id, "running">>
       /\ h_callbacks[2 * k][1] = id
       /\ h_callbacks[2 * k][2] \in {"success", "failed"}

\* C14 (as claimed): with a progress callback configured, every step executed
\* through execute_single_step, execute_selected_steps or
\* execute_one_click_calibration has the callback invoked with Running before
\* the device is contacted and again with the terminal status and result.
C14_Claimed_CallbackTwicePerStep ==
    Configured =>
        /\ InStep => /\ h_callbacks # <<>>
                     /\ h_callbacks[Len(h_callbacks)] = <<CurrentStep, "running">>
        /\ SingleReturned =>
             h_callbacks = << <<run_ids[1], "running">>,
                              <<run_ids[1], Val(Val(single_returned).result).status>> >>
        /\ (Returned /\ run_kind \in {"selected", "one_click"}) =>
             \A k \in 1..Len(exec_result.executed_steps) : ToldTwice(k)

\* a direct execute_single_step call with a callback configured contacted the
\* device and returned Success, and the callback was never invoked
C14_Witness ==
    /\ Configured
    /\ SingleReturned
    /\ Val(Val(single_returned).result).status = "success"
    /\ h_writes >= 1
    /\ h_callbacks = <<>>

\* the run stops at a Failed step by configuration
RunStopsOnError == run_kind = "selected" /\ e_config.stop_on_error /\ exec_result.failed_steps # <<>>

\* C15 (as claimed): when a progress callback invocation raised during a
\* batch, the step it was invoked for is executed and recorded, the run's
\* status is not turned to Failed by the callback's error, and the remaining
\* requested steps are executed (unless the run is cancelled, stops on a
\* Failed step or meets an unknown id).
C15_Claimed_CallbackErrorIgnored ==
    (Returned /\ h_cb_raised) =>
        /\ h_callbacks[Len(h_callbacks)][1] \in SeqToSet(exec_result.executed_steps)
        /\ exec_result.error_message # "batch_exception"
        /\ (/\ \A i \in 1..Len(run_ids) : KnownStep(run_ids[i])
            /\ exec_result.status # "cancelled"
            /\ ~RunStopsOnError) => exec_result.executed_steps = run_ids

\* three known steps requested, the callback raised when told that the first
\* was Running: the run returned Failed with no step executed
C15_Witness ==
    /\ Returned
    /\ h_cb_raised
    /\ run_ids = <<"step2", "step1", "step3">>
    /\ h_callbacks = << <<"step2", "running">> >>
    /\ exec_result.status = "failed"
    /\ exec_result.error_message = "batch_exception"
    /\ exec_result.executed_steps = <<>>
    /\ h_writes = 0

\* the batch call returns in this step (the finally clause runs)
RunEnds == epc # "idle" /\ epc' = "idle" /\ IsSome(returned')

\* C16 (as claimed): the executor's status changes only Idle to Running,
\* Running to Paused, Paused to Running, Running or Paused to Cancelled, and
\* from a terminal state back to Idle (the end of a run that was Running or
\* Cancelled counts as such); Paused is left only to Running or Cancelled.
C16_Claimed_StatusTransitions ==
    [][current_status' # current_status =>
          \/ current_status = "idle" /\ current_status' = "running"
          \/ current_status = "running" /\ current_status' = "paused"
          \/ current_status = "paused" /\ current_status' = "running"
          \/ current_status \in {"running", "paused"} /\ current_status' = "cancelled"
          \/ current_status \in {"running", "cancelled"} /\ current_status' = "idle" /\ RunEnds]_vars

\* the run was paused during its last step and is about to return: the
\* finally clause will take the status from Paused to Idle
C16_Witness ==
    /\ current_status = "paused"
    /\ run_kind = "selected"
    /\ epc = "loop"
    /\ idx > Len(run_ids)
    /\ exec_result.executed_steps = run_ids
    /\ ~stop_requested

\* C17 (as claimed): a batch started while another batch has been started
\* and has not finished fails fast with a busy error and executes no step.
C17_Claimed_SecondBatchRejected ==
    IsSome(second_returned) =>
        /\ Val(second_returned).status = "failed"
        /\ Val(second_returned).error_message = "executor_busy"
        /\ Val(second_returned).executed_steps = <<>>

\* while the first batch is waiting for the device, a second
\* execute_selected_steps call executed step2, returned Completed and left
\* the executor's status Idle
C17_Witness ==
    /\ epc = "wait"
    /\ ~Returned
    /\ IsSome(second_returned)
    /\ Val(second_returned).status = "completed"
    /\ Val(second_returned).executed_steps = <<"step2">>
    /\ Val(second_returned).failed_steps = <<"step2">>
    /\ current_status = "idle"
    /\ execution_counter = 2

\* C20 (as claimed): a parameter-encoding error is detected before any byte
\* of the step's command is written, and the failing operation is attempted
\* exactly once: a step execution that failed in prepare_parameters is not
\* repeated by the executor's auto-retry.
C20_Claimed_EncodingErrorNotRetried ==
    /\ epc \in {"write", "wait"} => prepare_parameters(CurrentStep, cal_params).ok
    /\ \A i \in 1..Len(h_outcomes) :
         h_outcomes[i].error_message = "prepare_overflow" => Len(h_outcomes) = 1

\* step2 with a standard voltage that does not fit two bytes: the first
\* execution failed in prepare_parameters and the auto-retry executed the
\* step again, with the same error
C20_Witness ==
    /\ SingleStepDone
    /\ CurrentStep = "step2"
    /\ ~prepare_parameters("step2", cal_params).ok
    /\ e_config.auto_retry_failed
    /\ h_outcomes = <<FailedAttempt("prepare_overflow"), FailedAttempt("prepare_overflow")>>

\* C21 (as claimed): no executor operation raises to its caller; a direct
\* execute_single_step call returns a StepResult for every step id, an
\* unknown one included.
C21_Claimed_NothingRaised ==
    IsSome(single_returned) =>
        /\ ~Val(single_returned).raised
        /\ IsSome(Val(single_returned).result)

\* execute_single_step was called with an unknown id and raised ValueError:
\* the caller has no StepResult
C21_Witness ==
    /\ single_returned = Some(SingleOutcome(TRUE, None))
    /\ epc = "idle"
    /\ run_kind = "none"

\* the position of the first unknown id of the request, 0 if there is none
FirstUnknown ==
    IF \E i \in 1..Len(run_ids) : ~KnownStep(run_ids[i])
    THEN CHOOSE i \in 1..Len(run_ids) :
           /\ ~KnownStep(run_ids[i])
           /\ \A j \in 1..(i - 1) : KnownStep(run_ids[j])
    ELSE 0

\* a step in which execute_single_step is called and raises
SingleCallRaises ==
    /\ runs_left' = runs_left - 1
    /\ epc = "idle" /\ epc' = "idle"
    /\ IsSome(single_returned') /\ Val(single_returned').raised

\* a batch with an unknown id never starts that id or a step after it, never
\* returns Completed, and when its loop reaches the unknown id with no stop
\* requested it returns Failed, the steps before it being the executed ones
BatchStopsAtUnknown ==
    (run_kind = "selected" /\ FirstUnknown > 0) =>
         /\ Len(h_started) < FirstUnknown
         /\ IsPrefix(h_started, run_ids)
         /\ idx <= FirstUnknown
         /\ Returned =>
              /\ exec_result.status \in {"failed", "cancelled"}
              /\ exec_result.status = "failed" => exec_result.error_message # "none"
              /\ (idx = FirstUnknown /\ exec_result.status # "cancelled") =>
                   /\ exec_result.error_message = "batch_exception"
                   /\ exec_result.executed_steps = SubSeq(run_ids, 1, FirstUnknown - 1)

\* C22: an unknown step id fails fast. execute_single_step raises without
\* writing to the device, counting a command or touching a step;
\* execute_selected_steps never starts the unknown id or a step after it,
\* never returns Completed, and when its loop reaches the unknown id with no
\* stop requested it returns Failed with an error message, the steps before
\* it being the executed ones.
C22_UnknownIdFailsFast ==
    /\ [][SingleCallRaises =>
            /\ Val(single_returned').result = None
            /\ UNCHANGED <<h_writes, counters, comm_status, step_status, step_result,
                           current_status, exec_result>>]_vars
    /\ []BatchStopsAtUnknown

\* step1 ran, the loop reached stepX and the run returned Failed; step2 was
\* never started
C22_Witness ==
    /\ Returned
    /\ run_ids = <<"step1", "stepX", "step2">>
    /\ exec_result.status = "failed"
    /\ exec_result.error_message = "batch_exception"
    /\ exec_result.executed_steps = <<"step1">>
    /\ exec_result.successful_steps = <<"step1">>
    /\ h_started = <<"step1">>
    /\ ~h_cb_raised

\* a batch is in progress, cancel_execution was called during it and the flag
\* is still set
CancelledRun ==
    /\ run_kind \in {"selected", "one_click"}
    /\ epc # "idle"
    /\ h_cancelled
    /\ stop_requested

\* C31 (as claimed): once cancel_execution has been called during a run, the
\* run starts no new attempt: the communicator does not go on to a retry of
\* the command in flight, the executor does not go on to an auto-retry of the
\* current step, and no further step is started.
C31_Claimed_NoAttemptAfterCancel ==
    [][CancelledRun =>
         /\ attempt' <= attempt
         /\ s_try' <= s_try
         /\ h_started' = h_started]_vars

\* the run is cancelled and the flag set, and the communicator has gone on to
\* its second attempt, whose frame it is about to write
C31_Witness ==
    /\ CancelledRun
    /\ epc = "write"
    /\ attempt = 1
    /\ h_writes = 1

\* C34 (as claimed): a cancellation request affects only the run in progress:
\* a batch during which cancel_execution was not called does not return
\* Cancelled, whatever was called before it started.
C34_Claimed_CancelIsPerRun ==
    (Returned /\ ~h_cancelled) => Val(returned).status # "cancelled"

\* cancel_execution was called while the executor was idle, the batch started
\* afterwards ran no step and returned Cancelled
C34_Witness ==
    /\ Returned
    /\ ~h_cancelled
    /\ run_ids # <<>>
    /\ h_started = <<>>
    /\ Val(returned).status = "cancelled"
    /\ Val(returned).executed_steps = <<>>

\* C35 (as claimed): while the executor's status is Paused the run starts no
\* step and does not finish.
C35_Claimed_PausedStartsNothing ==
    [][current_status = "paused" => (h_started' = h_started /\ returned' = returned)]_vars

\* the status is Paused, no stop is requested, and the batch thread has passed
\* the head of its loop into the second step of the request
C35_Witness ==
    /\ current_status = "paused"
    /\ ~stop_requested /\ ~h_cancelled
    /\ run_kind = "selected"
    /\ epc = "exec"
    /\ idx = 2
    /\ Len(h_started) = 2
    /\ calls_left = MaxCalls - 1
    /\ exec_result.executed_steps = <<run_ids[1]>>

BatchRunning == run_kind \in {"selected", "one_click"} /\ epc # "idle"

\* the configuration in force is the one the batch runs or ran with
ConfigOfRun == run_kind = "selected" \/ BatchRunning

\* len(ids) x (1 + max_step_retries) x (max_retries + 1)
WriteBound == Len(run_ids) * (1 + e_config.max_step_retries) * (comm_config.max_retries + 1)

\* C36: with every write returning and every read delivering bytes or
\* reaching its deadline, a batch returns; it writes at most
\* len(ids) x (1 + max_step_retries) x (max_retries + 1) frames; and a command
\* whose response was accepted at its k-th attempt has written k frames, none
\* after the accepted response.
C36_TerminatesWithinBound ==
    /\ [](ConfigOfRun => h_run_writes <= WriteBound)
    /\ []((run_kind \in {"selected", "one_click", "single"} /\ epc \notin {"write", "wait"}
            /\ comm_result.ended = "returned" /\ h_writes > 0) =>
               h_writes = comm_result.result.retry_count + 1)
    /\ (BatchRunning ~> Returned)

\* a batch of one step on a silent line, one communicator retry and no step
\* retry, has returned after writing as many frames as the bound allows
C36_Witness ==
    /\ Returned
    /\ run_kind = "selected"
    /\ run_ids = <<"step1">>
    /\ comm_config.max_retries = 1
    /\ e_config.max_step_retries = 0
    /\ h_run_writes = 2
    /\ h_run_writes = WriteBound

(***************************************************************************)
(* The sub-fields of a built frame, read back by the parser                *)
(***************************************************************************)
\* parse has been applied to a frame build produced
BuiltAndParsed == c_pc = "parsed" /\ c_built.ok /\ IsSome(c_parsed)

\* the parsed parameter_data stands for the byte string P (None is the
\* parser's "no parameter bytes")
ParameterDataIs(parsed, P) ==
    IF P = <<>> THEN parsed.parameter_data \in {None, Some(<<>>)}
    ELSE parsed.parameter_data = Some(P)

\* C37: for every frame build produces from parameter bytes P, parse gives
\* parameter_data = P, password_field = 00 00 00 00 and operator_field =
\* 01 00 00 00, for empty and non-empty P alike.
C37_Claimed_SubfieldsRecovered ==
    BuiltAndParsed =>
        /\ ParameterDataIs(Val(c_parsed), c_params)
        /\ Val(c_parsed).password_field = Some(convert_excel_field_to_bytes(PASSWORD_FIELD))
        /\ Val(c_parsed).operator_field = Some(convert_excel_field_to_bytes(OPERATOR_CODE))

\* the reference identifier with the one parameter byte CD: the parser reads
\* the parameter byte as the first password byte, and the trailer byte as the
\* last parameter byte
C37_Witness ==
    /\ BuiltAndParsed
    /\ c_di = DI_00F81500
    /\ c_params = <<205>>
    /\ Val(c_parsed).parse_result = "success"
    /\ Val(c_parsed).password_field = Some(<<205, 0, 0, 0>>)
    /\ Val(c_parsed).operator_field = Some(<<0, 1, 0, 0>>)
    /\ Val(c_parsed).parameter_data = Some(<<0, 0>>)

(***************************************************************************)
(* The conditions of a Success result of parse                             *)
(***************************************************************************)
\* the byte string a call of parse_frame was given
ParsedBytes ==
    IF f_in.fn = "parse_corrupted" THEN ReplaceByte(f_in.bytes, f_in.pos, f_in.val)
    ELSE f_in.bytes

ParseDone == BytesParsed \/ CorruptParsed

\* at least 12 bytes, both start markers, and a total length of 12 plus the
\* length byte
WellFramed(b) ==
    IF Len(b) < 12 THEN FALSE
    ELSE At(b, 0) = 104 /\ At(b, 7) = 104 /\ Len(b) = 12 + At(b, LENGTH_INDEX)

EndMarkerGood(b) == At(b, Len(b) - 1) = 22

\* the next-to-last byte is the sum of all bytes before it, modulo 256
ChecksumGood(b) == At(b, Len(b) - 2) = SumSeq(Slice(b, 0, Len(b) - 2)) % 256

\* C38: parse reports Success exactly for the inputs of at least 12 bytes
\* with both start markers, a total length of 12 plus the length byte, the end
\* marker 0x16 and a next-to-last byte equal to the computed checksum; every
\* Success result has checksum_valid true; an input with a bad end marker and
\* a bad checksum is reported as ChecksumError.
C38_SuccessIffWellFormed ==
    ParseDone =>
        LET b == ParsedBytes
            good == IF WellFramed(b) THEN EndMarkerGood(b) /\ ChecksumGood(b) ELSE FALSE
            bothBad == IF WellFramed(b) THEN ~EndMarkerGood(b) /\ ~ChecksumGood(b) ELSE FALSE
        IN /\ (f_out.parse_result = "success") <=> good
           /\ f_out.parse_result = "success" => f_out.checksum_valid
           /\ bothBad => f_out.parse_result = "checksum_error"

\* a device frame whose end marker was replaced and whose checksum is one
\* too high: ChecksumError
C38_Witness ==
    /\ BytesParsed
    /\ WellFramed(f_in.bytes)
    /\ Len(f_in.bytes) = 18
    /\ ~EndMarkerGood(f_in.bytes)
    /\ ~ChecksumGood(f_in.bytes)
    /\ f_out.parse_result = "checksum_error"
    /\ ~f_out.checksum_valid

(***************************************************************************)
(* The configuration around execute_one_click_calibration                  *)
(***************************************************************************)
\* an execute_one_click_calibration call is in progress
OneClickRunning == run_kind = "one_click" /\ epc # "idle"

\* C39: execute_one_click_calibration leaves the executor's configuration
\* unchanged: the call keeps the configuration it found, runs under the
\* one-click policy with that configuration's progress callback, and when it
\* ends (completed, cancelled or failed) the configuration is again the one
\* it found.
C39_ConfigRestored ==
    /\ [][(epc = "idle" /\ OneClickRunning') =>
              (original_config' = Some(e_config) /\ e_config' = OneClickConfig(e_config))]_vars
    /\ [][(OneClickRunning /\ OneClickRunning') => UNCHANGED <<e_config, original_config>>]_vars
    /\ [][(OneClickRunning /\ epc' = "idle") =>
              (IsSome(original_config) /\ e_config' = Val(original_config))]_vars
    /\ [][(epc = "idle" /\ epc' = "idle") => UNCHANGED e_config]_vars

\* a cancelled one-click run has returned, and the configuration is the
\* caller's (stop on error, one step retry), not the one-click policy
C39_Witness ==
    /\ Returned
    /\ run_kind = "one_click"
    /\ Val(returned).status = "cancelled"
    /\ h_started # <<>>
    /\ e_config.stop_on_error
    /\ e_config.max_step_retries # 2
    /\ e_config # OneClickConfig(e_config)

(***************************************************************************)
(* The correction value of a successful step (checked under SpecStep)      *)
(***************************************************************************)
\* the steps that decode a fixed-width field, and the width each decodes
DecodingSteps == {"step2", "step3", "step4", "step5"}

DecodedWidth(id) == IF id = "step4" THEN 2 ELSE 4

\* step id has been executed and its result is Success
StepSucceeded(id) == IsSome(step_result[id]) /\ Val(step_result[id]).status = "success"

\* the payload of the response the step's result carries is at least as long
\* as the field the step decodes
PayloadDecoded(id) ==
    LET r == Val(step_result[id])
    IN IsSome(r.raw_response)
         /\ IsSome(ResponseDataField(Val(r.raw_response), DecodedWidth(id)))

\* C40: a step reports Success only when its correction value was decoded
\* from the response payload; a response whose payload is shorter than the
\* field the step decodes (4 bytes, 2 for phase compensation) gives Failed.
C40_Claimed_SuccessMeansDecoded ==
    \A id \in DecodingSteps : StepSucceeded(id) => PayloadDecoded(id)

\* step2 got an acknowledgement without payload and reports Success with the
\* default correction value 1.0
C40_Witness ==
    /\ StepSucceeded("step2")
    /\ Val(step_result["step2"]).raw_response = Some(NoDataResponse)
    /\ Val(step_result["step2"]).correction_value = Some(Frac(1, 1))
    /\ step_status["step2"] = "success"

====
